---- MODULE Spec2Model ----
(***************************************************************************)
(* A model of the lucigo client library (package lucigo, the Go source     *)
(* that follows the module file in src/go.mod):                            *)
(*   - HybridController.Command, the synchronous request/response engine   *)
(*     with its echo filter, over a duplex stream and a bufio.Scanner;     *)
(*   - ParseEndpoint / ToURL, the endpoint URL grammar;                    *)
(*   - Discovery (mdns lookup, checkServer, FindAll, FindMaxOne, Close);   *)
(*   - NewHybridController with TCPEndpoint.Open and SerialEndpoint.Open;  *)
(* and of the command lucigo (src/cmd/lucigo): the websocket bridge of     *)
(* web.go and the net-set command of main.go.                              *)
(* Wire lines are modelled as JSON objects (records of optional fields),   *)
(* URLs as sequences of one-character strings.                             *)
(***************************************************************************)
EXTENDS Integers, Sequences, FiniteSets, TLC

\* ------------------------------------------------------------------ bounds
\* How many requests (fresh uuids) one run issues.
MaxCmds == 2
\* How many lines the device side sends on one stream.
MaxLines == 2

\* ------------------------------------------------------------ wire values
\* Request types used by the callers (cmd/lucigo/main.go: "net_get", Query <type>).
Types == {"net_status", "net_get"}

\* uuid.UUID: 0 is the zero UUID, 1.. are the values uuid.New() hands out.
ZeroId == 0

\* Marker of a JSON member that the object does not have.
Absent == "absent"
AbsentNum == -1

\* A Go value held in SendEnvelope.Msg (interface{}): the JSON it marshals to
\* and the shape it has in memory. "decoded" is the shape json.Unmarshal
\* produces for an interface{} target (nil, map[string]interface{}, string,
\* float64, ...); "typed" is any other Go value with the same JSON (an int, a
\* map[string]string, a struct); "unsupported" cannot be marshalled (a chan).
GoNil == [json |-> "null", form |-> "decoded"]
GoMapDecoded == [json |-> "objA", form |-> "decoded"]
GoMapTyped == [json |-> "objA", form |-> "typed"]
GoChan == [json |-> "none", form |-> "unsupported"]
GoValues == {GoNil, GoMapDecoded, GoMapTyped, GoChan}

\* One line of the stream, as the JSON object it holds (json = FALSE: the line
\* is no JSON object at all, e.g. boot chatter or a log line).
Line(t, i, m, c, e) ==
    [json |-> TRUE, type |-> t, id |-> i, msg |-> m, code |-> c, error |-> e]
Garbage ==
    [json |-> FALSE, type |-> Absent, id |-> AbsentNum, msg |-> Absent,
     code |-> AbsentNum, error |-> Absent]
\* No line (a variable that holds no line yet).
NoLine ==
    [json |-> FALSE, type |-> "none", id |-> AbsentNum, msg |-> Absent,
     code |-> AbsentNum, error |-> Absent]

\* SendEnvelope, RecvEnvelope and their zero values.
SendEnvelope(t, i, m) == [Type |-> t, Id |-> i, Msg |-> m]
ZeroSend == SendEnvelope("", ZeroId, GoNil)
RecvEnvelope(t, i, c, e, m) == [Type |-> t, Id |-> i, Code |-> c, Error |-> e, Msg |-> m]
ZeroRecv == RecvEnvelope("", ZeroId, 0, "", "null")
\* The nil *RecvEnvelope.
NilRecv == RecvEnvelope("nil", AbsentNum, AbsentNum, "nil", "nil")
NoReq == SendEnvelope("none", AbsentNum, GoNil)

\* json.Marshal(sent_envelope): fails for a payload encoding/json cannot encode.
MarshalOk(env) == env.Msg.form # "unsupported"
MarshalSend(env) == Line(env.Type, env.Id, env.Msg.json, AbsentNum, Absent)

\* The line terminator Command and the bridge handler append: []byte("\r\n").
CRLF == <<"\r", "\n">>

\* The argument of one Stream.Write: the line and the terminator appended to it.
WireLine(env) == [line |-> MarshalSend(env), term |-> CRLF]

\* What the caller called: the method and its arguments (fn "none": no call yet).
Called(fn, t, m) == [fn |-> fn, Type |-> t, Msg |-> m]

\* json.Unmarshal into an interface{}: null or a missing member leave nil.
DecodeAny(j) == IF j \in {Absent, "null"} THEN GoNil ELSE [json |-> j, form |-> "decoded"]

\* json.Unmarshal(line, &test_send_env) on a zero SendEnvelope: members the
\* struct does not have ("code", "error") are ignored, missing members keep
\* the zero value, a line that is no JSON leaves the struct untouched.
UnmarshalSend(line) ==
    IF ~line.json THEN ZeroSend
    ELSE SendEnvelope(IF line.type = Absent THEN "" ELSE line.type,
                      IF line.id = AbsentNum THEN ZeroId ELSE line.id,
                      DecodeAny(line.msg))

\* json.Unmarshal(line, &recv_envelope) on the zero RecvEnvelope.
UnmarshalRecv(line) ==
    IF ~line.json THEN ZeroRecv
    ELSE RecvEnvelope(IF line.type = Absent THEN "" ELSE line.type,
                      IF line.id = AbsentNum THEN ZeroId ELSE line.id,
                      IF line.code = AbsentNum THEN 0 ELSE line.code,
                      IF line.error = Absent THEN "" ELSE line.error,
                      IF line.msg \in {Absent, "null"} THEN "null" ELSE line.msg)

\* A plausible slip: a line carrying another id is skipped like an echo.
IsEchoOrOtherId(line, sent) ==
    UnmarshalSend(line) = sent \/ UnmarshalSend(line).Id # sent.Id

\* reflect.DeepEqual(test_send_env, sent_envelope): the echo test of Command.
IsEcho(line, sent) == UnmarshalSend(line) = sent

VARIABLES
    hc,          \* the controller: "nil", "zero" (Stream == nil) or "open"
    wrBroken,    \* Stream.Write fails from now on
    rdClosed,    \* the read side ended or failed: no further line arrives
    inbuf,       \* lines sent by the device and not yet scanned
    delivered,   \* number of lines the device sent on this stream
    scanDone,    \* the bufio.Scanner has returned false (it stays false)
    pc,          \* "idle", "scan" (Command blocked in its read loop), "done"
    req,         \* sent_envelope of the call in progress or last returned
    resp,        \* the returned *RecvEnvelope
    err,         \* the returned error: "nil", "marshal", "uninit", "write"
    warned,      \* the type-mismatch warning was printed by this call
    nextId,      \* next value of uuid.New()
    writes,      \* Stream.Write calls made by this call
    reads,       \* Reader.Scan calls made by this call
    nEcho,       \* lines read by this call that equal the line it wrote
    firstOther,  \* first line read by this call that differs from the line it wrote
    accepted,    \* the line this call decoded as its response
    ioFailed,    \* a call on this controller met a write or read failure
    afterFail,   \* ioFailed as it was when this call began
    wire,        \* the arguments of the Stream.Write calls made by this call
    called,      \* the method the caller called, with its arguments
    input,       \* the endpoint string handed to ParseEndpoint
    epc,         \* "start", "parsed" (ParseEndpoint returned), "reparsed"
    ep,          \* what ParseEndpoint(input) returned
    rendered,    \* ep.ToURL()
    ep2,         \* what ParseEndpoint(ep.ToURL()) returned
    dpc,         \* the discovery caller: "none", "lookup" (in mdns.Lookup), "ready",
                 \* "select", "closeEntries", "closeFound", "returned", "panicked"
    call,        \* what the caller called on the Discovery: "none", "FindAll",
                 \* "FindMaxOne", "Close"
    entries,     \* d.entries: the buffered records
    entriesClosed, \* number of close(d.entries) executed
    foundClosed, \* number of close(d.found) executed
    cs,          \* the checkServer goroutine: "none", "range", "resolve", "send",
                 \* "exited", "panicked"
    csEntry,     \* entry, the record checkServer is working on
    cand,        \* the endpoint checkServer is sending on d.found
    produced,    \* the records checkServer resolved, each with its candidate
    taken,       \* number of records checkServer received from d.entries
    offered,     \* candidates checkServer had ready before the caller's select ended
    nRecords,    \* advertisement records mdns.Lookup received
    nDropped,    \* records mdns.Lookup could not queue (d.entries full)
    results,     \* FindAll's results
    result,      \* the received endpoint (FindAll, FindMaxOne)
    ok,          \* FindMaxOne's ok
    timedOut,    \* the select ended by time.After
    crashed,     \* the process went down with a panic
    srvHc,       \* server.Hc: "nil", "empty" (never opened, no Endpoint) or "set"
    srvDown,     \* the web server process went down with a panic
    started,     \* number of /ws requests handled so far (bridge sessions)
    ws,          \* per session, the socket connection: "none", "open", "closed"
    wsBroken,    \* per session: the client is gone or the connection failed
    inpc,        \* per session, startWebSocket: "none", "read" (in its loop), "returned"
    outpc,       \* per session, luci2ws: "none", "scan" (in its loop), "ended"
    outEnd,      \* per session, why luci2ws left its loop: "none", "scan", "write"
    doneClosed,  \* per session: number of close(done) executed
    clientMsgs,  \* per session: messages the client sent, not yet read
    got,         \* per session: the messages ReadMessage returned, in order
    wrote,       \* per session: what the handler wrote to Hc.Stream, in order
    readToks,    \* per session: the tokens Scan returned to luci2ws, in order
    sent,        \* per session: the text messages WriteMessage sent, in order
    devLines,    \* lines the device sent, not yet scanned
    devSent,     \* number of lines the device sent
    devClosed,   \* the device stream ended or failed: no further line arrives
    scanEnded,   \* Hc.Reader.Scan has returned false (it stays false)
    strmBroken,  \* Hc.Stream.Write fails from now on
    nMsgs,       \* number of messages the clients sent
    staleReads,  \* tokens Scan returned to a luci2ws whose handler had returned
    ident,       \* the last answer of webServerIdent: "none", "document", "panic"
    opc,         \* NewHybridController(endpoint): "idle", "open" (in eps.Open()),
                 \* "flush" (the serial port is open, before sock.Flush()), "returned"
    opEndpoint,  \* the endpoint handed to NewHybridController
    nOpens,      \* number of NewHybridController calls so far
    opened,      \* net.Dial / serial.OpenPort of this call: "none", "ok", "failed"
    attempts,    \* net.Dial / serial.OpenPort calls made by this call
    flushes,     \* sock.Flush() calls made by this call
    flushedNil,  \* a Flush of this call was made on a port that was not opened
    buffered,    \* bytes the device holds buffered for the reader
    opHc,        \* the returned *HybridController: "nil" or "controller"
    opStream,    \* hc.Stream of the returned controller: "nil", "conn", "port"
    opReader,    \* what hc.Reader reads from: "nil", "conn", "port"
    opErr,       \* the returned error: "nil", "type", "invalid", "dial", "open"
    opDown,      \* the process was terminated
    nspc,        \* the net-set command: "idle", "merge" (in net_set's loop),
                 \* "done", "fatal" (log.Fatal), "panicked"
    nsPatch,     \* the entries of the patch the loop has not visited yet
    nsCur,       \* cur, the configuration being patched
    nsBefore,    \* cur as it was before the entry merged last
    nsEntry,     \* the entry merged last
    nsMultiple,  \* the entry merged last met several candidates (message printed)
    nsSent,      \* the requests the command has sent, in order
    nsPrinted    \* what jsonPrint printed

cmdVars == <<hc, wrBroken, rdClosed, inbuf, delivered, scanDone, pc, req, resp, err,
             warned, nextId, writes, reads, nEcho, firstOther, accepted,
             ioFailed, afterFail, wire, called>>
epVars == <<input, epc, ep, rendered, ep2>>
discVars == <<dpc, call, entries, entriesClosed, foundClosed, cs, csEntry, cand,
              produced, taken, offered, nRecords, nDropped, results, result, ok,
              timedOut, crashed>>
brVars == <<srvHc, srvDown, started, ws, wsBroken, inpc, outpc, outEnd, doneClosed, clientMsgs,
            got, wrote, readToks, sent, devLines, devSent, devClosed,
            scanEnded, strmBroken, nMsgs, staleReads, ident>>
opVars == <<opc, opEndpoint, nOpens, opened, attempts, flushes, flushedNil, buffered,
            opHc, opStream, opReader, opErr, opDown>>
nsVars == <<nspc, nsPatch, nsCur, nsBefore, nsEntry, nsMultiple, nsSent, nsPrinted>>
vars == <<cmdVars, epVars, discVars, brVars, opVars, nsVars>>

InitCommand ==
    /\ hc \in {"nil", "zero", "open"}
    /\ wrBroken = FALSE
    /\ rdClosed = FALSE
    /\ inbuf = <<>>
    /\ delivered = 0
    /\ scanDone = FALSE
    /\ pc = "idle"
    /\ req = NoReq
    /\ resp = NilRecv
    /\ err = "nil"
    /\ warned = FALSE
    /\ nextId = 1
    /\ writes = 0
    /\ reads = 0
    /\ nEcho = 0
    /\ firstOther = NoLine
    /\ accepted = NoLine
    /\ ioFailed = FALSE
    /\ afterFail = FALSE
    /\ wire = <<>>
    /\ called = Called("none", "none", GoNil)

\* NewHybridController: a fresh stream and a fresh scanner over it, or, when
\* the endpoint cannot be opened, nil and the error.
NewHybridController ==
    /\ pc \in {"idle", "done"}
    /\ hc' \in {"open", "nil"}
    /\ wrBroken' = FALSE
    /\ rdClosed' = FALSE
    /\ inbuf' = <<>>
    /\ delivered' = 0
    /\ scanDone' = FALSE
    /\ ioFailed' = FALSE
    /\ pc' = "idle"
    /\ req' = NoReq
    /\ resp' = NilRecv
    /\ err' = "nil"
    /\ warned' = FALSE
    /\ writes' = 0
    /\ reads' = 0
    /\ nEcho' = 0
    /\ firstOther' = NoLine
    /\ accepted' = NoLine
    /\ afterFail' = FALSE
    /\ wire' = <<>>
    /\ called' = Called("none", "none", GoNil)
    /\ UNCHANGED nextId
    /\ UNCHANGED <<epVars, discVars, brVars, opVars, nsVars>>

\* Command, json.Marshal(sent_envelope) failed: return nil, err.
MarshalFails ==
    /\ resp' = NilRecv /\ err' = "marshal" /\ writes' = 0
    /\ wire' = <<>>
    /\ pc' = "done" /\ UNCHANGED ioFailed

\* A plausible slip: no check of hc and hc.Stream before the write.
UninitializedUnchecked ==
    /\ resp' = NilRecv /\ err' = "nil" /\ writes' = 1
    /\ wire' = <<WireLine(req')>>
    /\ pc' = "scan" /\ UNCHANGED ioFailed

\* Command, hc == nil || hc.Stream == nil: "cannot write on uninitialized
\* HybridController".
Uninitialized ==
    /\ resp' = NilRecv /\ err' = "uninit" /\ writes' = 0
    /\ wire' = <<>>
    /\ pc' = "done" /\ UNCHANGED ioFailed

\* A plausible slip: the error of Stream.Write is dropped and the read loop entered.
WriteErrorIgnored ==
    /\ resp' = NilRecv /\ err' = "nil" /\ writes' = 1
    /\ wire' = <<WireLine(req')>>
    /\ pc' = "scan" /\ ioFailed' = TRUE

\* Command, hc.Stream.Write returned an error: return nil, err.
WriteFails ==
    /\ resp' = NilRecv /\ err' = "write" /\ writes' = 1
    /\ wire' = <<WireLine(req')>>
    /\ pc' = "done" /\ ioFailed' = TRUE

\* A plausible slip: the line is terminated by a bare newline.
WriteSucceedsBareNewline ==
    /\ resp' = NilRecv /\ err' = "nil" /\ writes' = 1
    /\ wire' = <<[line |-> MarshalSend(req'), term |-> <<"\n">>]>>
    /\ pc' = "scan" /\ UNCHANGED ioFailed

\* Command, the request line is written: on to the read loop.
WriteSucceeds ==
    /\ resp' = NilRecv /\ err' = "nil" /\ writes' = 1
    /\ wire' = <<WireLine(req')>>
    /\ pc' = "scan" /\ UNCHANGED ioFailed

\* Command, up to its read loop: marshal, the nil check, the write.
CommandCall(env) ==
    /\ pc \in {"idle", "done"}
    /\ req' = env
    /\ reads' = 0
    /\ nEcho' = 0
    /\ firstOther' = NoLine
    /\ accepted' = NoLine
    /\ warned' = FALSE
    /\ afterFail' = ioFailed
    /\ UNCHANGED <<hc, wrBroken, rdClosed, inbuf, delivered, scanDone>>
    /\ IF ~MarshalOk(env) THEN MarshalFails
       ELSE IF hc \in {"nil", "zero"} THEN Uninitialized
       ELSE IF wrBroken THEN WriteFails
       ELSE WriteSucceeds

\* Query / QueryMsg / a direct Command: a fresh uuid per envelope.
Command ==
    /\ nextId <= MaxCmds
    /\ \E t \in Types, m \in GoValues :
          /\ CommandCall(SendEnvelope(t, nextId, m))
          /\ called' = Called("Command", t, m)
    /\ nextId' = nextId + 1
    /\ UNCHANGED <<epVars, discVars, brVars, opVars, nsVars>>

\* A plausible slip: the envelope carries the zero uuid instead of uuid.New().
NewEnvelopeZeroId(Type) == SendEnvelope(Type, ZeroId, GoNil)

\* NewEnvelope: a SendEnvelope of the type with a random uuid and no Msg.
NewEnvelope(Type) == SendEnvelope(Type, nextId, GoNil)

\* Query(Type): Command(NewEnvelope(Type)).
Query ==
    /\ nextId <= MaxCmds
    /\ \E t \in Types :
          /\ CommandCall(NewEnvelope(t))
          /\ called' = Called("Query", t, GoNil)
    /\ nextId' = nextId + 1
    /\ UNCHANGED <<epVars, discVars, brVars, opVars, nsVars>>

\* The payloads a caller hands to QueryMsg, a map[string]interface{}: the nil
\* map, a map of decoded shape, a map holding other Go values.
Payloads == {[json |-> "null", form |-> "typed"], GoMapDecoded, GoMapTyped}

\* QueryMsg(Type, Msg): envelope := NewEnvelope(Type); envelope.Msg = Msg;
\* Command(envelope).
QueryMsg ==
    /\ nextId <= MaxCmds
    /\ \E t \in Types, m \in Payloads :
          /\ CommandCall([NewEnvelope(t) EXCEPT !.Msg = m])
          /\ called' = Called("QueryMsg", t, m)
    /\ nextId' = nextId + 1
    /\ UNCHANGED <<epVars, discVars, brVars, opVars, nsVars>>

\* A plausible slip: the loop gives up after a first echo.
SkipEchoBounded ==
    IF reads >= 1
    THEN /\ resp' = ZeroRecv /\ err' = "nil" /\ pc' = "done"
         /\ UNCHANGED <<warned, accepted>>
    ELSE UNCHANGED <<pc, resp, err, warned, accepted>>

\* The read loop's "continue": the line was the echo, nothing is returned.
SkipEcho == UNCHANGED <<pc, resp, err, warned, accepted>>

\* A plausible slip: a type mismatch is treated as a failure.
AcceptLineStrictType(line) ==
    /\ accepted' = line
    /\ warned' = (UnmarshalRecv(line).Type # req.Type)
    /\ IF UnmarshalRecv(line).Type # req.Type
       THEN resp' = NilRecv /\ err' = "type"
       ELSE resp' = UnmarshalRecv(line) /\ err' = "nil"
    /\ pc' = "done"

\* The read loop's tail: decode the line as the response, warn on another
\* type, break and return recv_envelope, nil.
AcceptLine(line) ==
    /\ accepted' = line
    /\ resp' = UnmarshalRecv(line)
    /\ warned' = (UnmarshalRecv(line).Type # req.Type)
    /\ err' = "nil"
    /\ pc' = "done"

\* One pass of the read loop with a line available.
ScanLine ==
    /\ pc = "scan"
    /\ ~scanDone
    /\ inbuf # <<>>
    /\ LET line == Head(inbuf)
           sentLine == MarshalSend(req)
       IN /\ inbuf' = Tail(inbuf)
          /\ reads' = reads + 1
          /\ nEcho' = IF line = sentLine THEN nEcho + 1 ELSE nEcho
          /\ firstOther' = IF line # sentLine /\ firstOther = NoLine
                           THEN line ELSE firstOther
          /\ IF IsEcho(line, req) THEN SkipEcho ELSE AcceptLine(line)
    /\ UNCHANGED <<hc, wrBroken, rdClosed, delivered, scanDone, req, nextId,
                   writes, wire, called, ioFailed, afterFail>>
    /\ UNCHANGED <<epVars, discVars, brVars, opVars, nsVars>>

\* Scan returns false (end of stream or read error): the loop ends and the
\* still-zero envelope is returned with a nil error.
ScanFail ==
    /\ pc = "scan"
    /\ inbuf = <<>>
    /\ rdClosed \/ scanDone
    /\ scanDone' = TRUE
    /\ reads' = reads + 1
    /\ resp' = ZeroRecv
    /\ err' = "nil"
    /\ pc' = "done"
    /\ ioFailed' = TRUE
    /\ UNCHANGED <<hc, wrBroken, rdClosed, inbuf, delivered, req, warned, nextId,
                   writes, wire, called, nEcho, firstOther, accepted, afterFail>>
    /\ UNCHANGED <<epVars, discVars, brVars, opVars, nsVars>>

\* The lines the device side may send: request-shaped lines (echoes), success
\* replies with or without a "msg" member, error replies, for the requests
\* issued so far (current or earlier), and text that is no JSON.
DeviceLines ==
    { Line(t, i, m, AbsentNum, Absent) :
        t \in Types, i \in 1..(nextId - 1), m \in {"null", "objA"} }
    \cup { Line(t, i, m, 0, "") :
        t \in Types, i \in 1..(nextId - 1), m \in {Absent, "objA"} }
    \cup { Line(t, i, Absent, 1, "fail") : t \in Types, i \in 1..(nextId - 1) }
    \cup {Garbage}

\* The device sends a line while a call waits for one (a line the call does
\* not consume stays buffered for the next call).
Deliver ==
    /\ hc = "open"
    /\ pc = "scan"
    /\ ~rdClosed
    /\ delivered < MaxLines
    /\ \E line \in DeviceLines : inbuf' = Append(inbuf, line)
    /\ delivered' = delivered + 1
    /\ UNCHANGED <<hc, wrBroken, rdClosed, scanDone, pc, req, resp, err, warned,
                   nextId, writes, wire, called, reads, nEcho, firstOther, accepted, ioFailed,
                   afterFail>>
    /\ UNCHANGED <<epVars, discVars, brVars, opVars, nsVars>>

\* The reply lines of a device that follows the protocol, for a request: a
\* success reply with or without a "msg" member, or an error reply, carrying
\* the request's type and id.
Replies(env) ==
    { Line(env.Type, env.Id, m, 0, "") : m \in {Absent, "objA"} }
    \cup { Line(env.Type, env.Id, Absent, 1, "fail") }

\* Whether a line is a reply to a request.
IsReplyTo(line, env) ==
    line.json /\ line.type = env.Type /\ line.id = env.Id /\ line.code # AbsentNum

\* A device that follows the protocol sends a line for the request written
\* last: echoes of the request line, then exactly one reply.
DeliverAnswer ==
    /\ hc = "open"
    /\ pc \in {"scan", "done"} /\ writes = 1
    /\ ~rdClosed
    /\ delivered < MaxLines
    /\ ~IsReplyTo(firstOther, req) /\ ~IsReplyTo(accepted, req)
    /\ \A k \in 1..Len(inbuf) : ~IsReplyTo(inbuf[k], req)
    /\ \E line \in {MarshalSend(req)} \cup Replies(req) : inbuf' = Append(inbuf, line)
    /\ delivered' = delivered + 1
    /\ UNCHANGED <<hc, wrBroken, rdClosed, scanDone, pc, req, resp, err, warned,
                   nextId, writes, wire, called, reads, nEcho, firstOther, accepted, ioFailed,
                   afterFail>>
    /\ UNCHANGED <<epVars, discVars, brVars, opVars, nsVars>>

\* The peer closes or the link fails in the read direction.
ReadSideEnds ==
    /\ hc = "open"
    /\ ~rdClosed
    /\ rdClosed' = TRUE
    /\ UNCHANGED <<hc, wrBroken, inbuf, delivered, scanDone, pc, req, resp, err,
                   warned, nextId, writes, wire, called, reads, nEcho, firstOther, accepted,
                   ioFailed, afterFail>>
    /\ UNCHANGED <<epVars, discVars, brVars, opVars, nsVars>>

\* The link fails in the write direction.
WriteSideBreaks ==
    /\ hc = "open"
    /\ ~wrBroken
    /\ wrBroken' = TRUE
    /\ UNCHANGED <<hc, rdClosed, inbuf, delivered, scanDone, pc, req, resp, err,
                   warned, nextId, writes, wire, called, reads, nEcho, firstOther, accepted,
                   ioFailed, afterFail>>
    /\ UNCHANGED <<epVars, discVars, brVars, opVars, nsVars>>


\* ---------------------------------------------------------------- strings
\* A string is a sequence of one-character strings.
Lower == {"a", "c", "d", "e", "h", "i", "l", "n", "p", "r", "s", "t", "u", "v"}
Upper == {"C", "M", "O", "P", "T"}
Digits == {"0", "1", "2", "3", "4", "5", "6", "7", "8", "9"}

\* strings.ToLower, on the letters of the alphabet.
LowerOf(c) ==
    CASE c = "C" -> "c" [] c = "M" -> "m" [] c = "O" -> "o" [] c = "P" -> "p"
      [] c = "T" -> "t" [] c = "F" -> "f" [] OTHER -> c
ToLower(s) == [k \in 1..Len(s) |-> LowerOf(s[k])]

\* strings.Index / strings.LastIndex of a one-byte separator, 1-based; 0: none.
Index(s, c) ==
    LET hits == {k \in 1..Len(s) : s[k] = c}
    IN IF hits = {} THEN 0 ELSE CHOOSE k \in hits : \A j \in hits : k <= j
LastIndex(s, c) ==
    LET hits == {k \in 1..Len(s) : s[k] = c}
    IN IF hits = {} THEN 0 ELSE CHOOSE k \in hits : \A j \in hits : k >= j
HasPrefix(s, pre) == Len(s) >= Len(pre) /\ SubSeq(s, 1, Len(pre)) = pre
From(s, k) == SubSeq(s, k, Len(s))

DigitValue(c) ==
    CASE c = "0" -> 0 [] c = "1" -> 1 [] c = "2" -> 2 [] c = "3" -> 3 [] c = "4" -> 4
      [] c = "5" -> 5 [] c = "6" -> 6 [] c = "7" -> 7 [] c = "8" -> 8 [] c = "9" -> 9
DigitChar(d) == <<"0", "1", "2", "3", "4", "5", "6", "7", "8", "9">>[d + 1]

\* strconv.Atoi on a string of decimal digits (the only text url.Parse lets
\* through as a port); it fails on an empty string and on any other byte.
AtoiOk(s) == s # <<>> /\ \A k \in 1..Len(s) : s[k] \in Digits
RECURSIVE Atoi(_)
Atoi(s) == IF s = <<>> THEN 0 ELSE 10 * Atoi(SubSeq(s, 1, Len(s) - 1)) + DigitValue(s[Len(s)])

\* fmt.Sprintf("%d", n) for n >= 0.
RECURSIVE Itoa(_)
Itoa(n) == IF n < 10 THEN <<DigitChar(n)>> ELSE Itoa(n \div 10) \o <<DigitChar(n % 10)>>

\* ---------------------------------------------------------------- net/url
\* url.Parse as ParseEndpoint uses it, on strings without '#', '?', '%', '@'
\* and '[' (no fragment, query, escape, userinfo or IPv6 literal).
NoURL == [err |-> TRUE, Scheme |-> <<>>, Host |-> <<>>, Path |-> <<>>]
URL(scheme, host, path) == [err |-> FALSE, Scheme |-> scheme, Host |-> host, Path |-> path]

\* getScheme: <<ok, scheme, rest>>.
GetScheme(raw) ==
    LET stops == {k \in 1..Len(raw) : raw[k] \notin Lower \cup Upper \cup Digits \cup {".", "+", "-"}}
        k == IF stops = {} THEN 0 ELSE CHOOSE x \in stops : \A y \in stops : x <= y
    IN IF raw # <<>> /\ raw[1] \in Digits \cup {".", "+", "-"} THEN <<TRUE, <<>>, raw>>
       ELSE IF k = 0 THEN <<TRUE, <<>>, raw>>
       ELSE IF raw[k] # ":" THEN <<TRUE, <<>>, raw>>
       ELSE IF k = 1 THEN <<FALSE, <<>>, <<>>>>
       ELSE <<TRUE, SubSeq(raw, 1, k - 1), From(raw, k + 1)>>

\* validOptionalPort: "" or ':' followed by digits only.
ValidOptionalPort(port) ==
    port = <<>> \/ (port[1] = ":" /\ \A k \in 2..Len(port) : port[k] \in Digits)

\* shouldEscape(c, encodeHost) is false for these bytes; any other byte in a
\* host is an InvalidHostError.
HostByteOk(c) == c \in Lower \cup Upper \cup Digits \cup {".", "-", "_", "~", ":", "+"}

\* parseHost (= parseAuthority without userinfo): TRUE iff the host is accepted.
ParseHostOk(host) ==
    /\ LastIndex(host, ":") # 0 => ValidOptionalPort(From(host, LastIndex(host, ":")))
    /\ \A k \in 1..Len(host) : HostByteOk(host[k])

UrlParse(raw) ==
    LET gs == GetScheme(raw)
        scheme == ToLower(gs[2])
        rest == gs[3]
    IN IF ~gs[1] THEN NoURL
       ELSE IF ~HasPrefix(rest, <<"/">>)
       THEN IF scheme # <<>> THEN URL(scheme, <<>>, <<>>)   \* opaque
            ELSE LET cut == Index(rest, "/")
                     segment == IF cut = 0 THEN rest ELSE SubSeq(rest, 1, cut - 1)
                 IN IF Index(segment, ":") # 0 THEN NoURL ELSE URL(scheme, <<>>, rest)
       ELSE IF (scheme # <<>> \/ ~HasPrefix(rest, <<"/", "/", "/">>))
                /\ HasPrefix(rest, <<"/", "/">>)
       THEN LET auth0 == From(rest, 3)
                cut == Index(auth0, "/")
                authority == IF cut = 0 THEN auth0 ELSE SubSeq(auth0, 1, cut - 1)
                path == IF cut = 0 THEN <<>> ELSE From(auth0, cut)
            IN IF ParseHostOk(authority) THEN URL(scheme, authority, path) ELSE NoURL
       ELSE URL(scheme, <<>>, rest)

\* splitHostPort, behind URL.Hostname() and URL.Port().
SplitColon(host) ==
    LET colon == LastIndex(host, ":")
    IN IF colon # 0 /\ ValidOptionalPort(From(host, colon)) THEN colon ELSE 0
Hostname(u) ==
    IF SplitColon(u.Host) = 0 THEN u.Host ELSE SubSeq(u.Host, 1, SplitColon(u.Host) - 1)
Port(u) ==
    IF SplitColon(u.Host) = 0 THEN <<>> ELSE From(u.Host, SplitColon(u.Host) + 1)

\* --------------------------------------------------------------- endpoints
\* Default TCP port for the JSONL protocol.
defaultTcpPort == 5732

NilEndpoint == [kind |-> "nil", Host |-> <<>>, Port |-> 0, Device |-> <<>>]
TCPEndpoint(host, port) == [kind |-> "tcp", Host |-> host, Port |-> port, Device |-> <<>>]
SerialEndpoint(device) == [kind |-> "serial", Host |-> <<>>, Port |-> 0, Device |-> device]

\* What ParseEndpoint returns: (Endpoint, error).
Failed(why) == [e |-> NilEndpoint, err |-> why]
Parsed(e) == [e |-> e, err |-> "nil"]
NotParsed == [e |-> NilEndpoint, err |-> "not called"]

\* A plausible slip: the endpoint's host is taken from u.Host, port and all.
ParseEndpointRawHost(endpoint) ==
    LET u == UrlParse(endpoint)
    IN IF u.err THEN Failed("could not parse")
       ELSE IF Len(u.Host) = 0 \/ Len(u.Scheme) = 0 THEN Failed("need to provide")
       ELSE IF u.Scheme = <<"t", "c", "p">>
       THEN IF Len(Port(u)) = 0 THEN Parsed(TCPEndpoint(u.Host, defaultTcpPort))
            ELSE IF ~AtoiOk(Port(u)) THEN Failed("expected Port")
            ELSE Parsed(TCPEndpoint(u.Host, Atoi(Port(u))))
       ELSE IF u.Scheme = <<"s", "e", "r", "i", "a", "l">>
       THEN IF Len(u.Host) = 0 /\ Len(u.Path) # 0 THEN Parsed(SerialEndpoint(u.Path))
            ELSE IF Len(u.Host) # 0 /\ Len(u.Path) = 0 THEN Parsed(SerialEndpoint(u.Host))
            ELSE Parsed(SerialEndpoint(<<"/">> \o u.Host \o u.Path))
       ELSE Failed("don't know")

\* A plausible slip: only the scheme is required.
MissingScheme(u) == Len(u.Scheme) = 0

\* The guard of ParseEndpoint on the parsed URL: no host or no scheme.
MissingHostOrScheme(u) == Len(u.Host) = 0 \/ Len(u.Scheme) = 0

\* A plausible slip: host and path are joined without the leading slash.
SerialDeviceNoSlash(u) ==
    IF Len(u.Host) = 0 /\ Len(u.Path) # 0 THEN u.Path
    ELSE IF Len(u.Host) # 0 /\ Len(u.Path) = 0 THEN u.Host
    ELSE u.Host \o u.Path

\* The device of a serial URL, by the three cases of the serial branch.
SerialDevice(u) ==
    IF Len(u.Host) = 0 /\ Len(u.Path) # 0 THEN u.Path
    ELSE IF Len(u.Host) # 0 /\ Len(u.Path) = 0 THEN u.Host
    ELSE <<"/">> \o u.Host \o u.Path

\* A plausible slip: any other scheme is taken for a network endpoint.
UnknownSchemeAsTcp(u) == Parsed(TCPEndpoint(Hostname(u), defaultTcpPort))

\* The last return of ParseEndpoint: a scheme that is neither tcp nor serial.
UnknownScheme(u) == Failed("don't know")

ParseEndpoint(endpoint) ==
    LET u == UrlParse(endpoint)
    IN IF u.err THEN Failed("could not parse")
       ELSE IF MissingHostOrScheme(u) THEN Failed("need to provide")
       ELSE IF u.Scheme = <<"t", "c", "p">>
       THEN IF Len(Port(u)) = 0 THEN Parsed(TCPEndpoint(Hostname(u), defaultTcpPort))
            ELSE IF ~AtoiOk(Port(u)) THEN Failed("expected Port")
            ELSE Parsed(TCPEndpoint(Hostname(u), Atoi(Port(u))))
       ELSE IF u.Scheme = <<"s", "e", "r", "i", "a", "l">>
       THEN Parsed(SerialEndpoint(SerialDevice(u)))
       ELSE UnknownScheme(u)

\* TCPEndpoint.HostPort: fmt.Sprintf("%s:%d", e.Host, e.Port).
HostPort(e) == e.Host \o <<":">> \o Itoa(e.Port)

\* TCPEndpoint.ToURL and SerialEndpoint.ToURL.
ToURL(e) ==
    IF e.kind = "tcp" THEN <<"t", "c", "p", ":", "/", "/", " ">> \o HostPort(e)
    ELSE <<"s", "e", "r", "i", "a", "l", ":", "/", "/">> \o e.Device

\* TCPEndpoint.IsValid and SerialEndpoint.IsValid.
IsValid(e) ==
    IF e.kind = "tcp" THEN e.Port # 0 /\ e.Host # <<>> ELSE e.Device # <<>>

\* ------------------------------------------------------- endpoint inputs
\* The strings ParseEndpoint is applied to: scheme, separator, host, port
\* text (with the number it denotes; -1: none) and path, concatenated.
SchemeTexts == {<<"t", "c", "p">>, <<"s", "e", "r", "i", "a", "l">>, <<"n", "e", "t">>,
                <<"T", "C", "P">>, <<>>}
SepTexts == {<<":", "/", "/">>, <<":", "/">>, <<":">>, <<>>}
HostTexts == {<<>>, <<"1", ".", "2">>, <<"h">>, <<"d", "e", "v">>, <<"C", "O", "M", "1">>,
              <<" ", "h">>}
PortTexts == {<<<<>>, -1>>, <<<<":">>, -1>>, <<<<":", "0">>, 0>>,
              <<<<":", "1", "2", "3">>, 123>>, <<<<":", "0", "8", "0">>, 80>>,
              <<<<":", "5", "7", "3", "2">>, 5732>>,
              <<<<":", "6", "5", "5", "3", "5">>, 65535>>,
              <<<<":", "6", "5", "5", "3", "6">>, 65536>>,
              <<<<":", "7", "0", "0", "0", "0">>, 70000>>,
              <<<<":", "h">>, -1>>}
PathTexts == {<<>>, <<"/">>, <<"/", "n", "u", "l", "l">>,
              <<"/", "d", "e", "v", "/", "n", "u", "l", "l">>}
Inputs == {sc \o sp \o h \o p[1] \o pa :
             sc \in SchemeTexts, sp \in SepTexts, h \in HostTexts,
             p \in PortTexts, pa \in PathTexts}

NoEndpointInput ==
    /\ input = <<>>
    /\ epc = "start"
    /\ ep = NotParsed
    /\ rendered = <<>>
    /\ ep2 = NotParsed

InitEndpoint ==
    /\ input \in Inputs
    /\ epc = "start"
    /\ ep = NotParsed
    /\ rendered = <<>>
    /\ ep2 = NotParsed

\* A caller parses the string (NewHybridControllerFromString, the tests).
ParseInput ==
    /\ epc = "start"
    /\ ep' = ParseEndpoint(input)
    /\ epc' = "parsed"
    /\ UNCHANGED <<input, rendered, ep2>>
    /\ UNCHANGED <<cmdVars, discVars, brVars, opVars, nsVars>>

\* A caller renders the endpoint it got and parses the rendering.
RoundTrip ==
    /\ epc = "parsed"
    /\ ep.err = "nil"
    /\ rendered' = ToURL(ep.e)
    /\ ep2' = ParseEndpoint(ToURL(ep.e))
    /\ epc' = "reparsed"
    /\ UNCHANGED <<input, ep>>
    /\ UNCHANGED <<cmdVars, discVars, brVars, opVars, nsVars>>

\* --------------------------------------------------------------- discovery
\* mdns.Lookup delivers at most MaxRecords advertisement records per session.
MaxRecords == 6

\* make(chan *mdns.ServiceEntry, 4): the capacity of d.entries.
EntriesCap == 4

\* An advertisement record (mdns.ServiceEntry): its hostname and announced address.
EntryHosts == {<<"h">>, <<"d", "e", "v">>}
EntryAddrs == {<<"1", ".", "2">>, <<"1", ".", "3">>}
ServiceEntry(host, addr) == [Host |-> host, AddrV4 |-> addr]
ServiceEntries == {ServiceEntry(h, a) : h \in EntryHosts, a \in EntryAddrs}
NoEntry == [Host |-> <<>>, AddrV4 |-> <<>>]

\* What net.LookupIP(entry.Host) may return: an error, or a set of addresses.
LookupFailed == [ok |-> FALSE, ips |-> {}]
LookupIPs(ips) == [ok |-> TRUE, ips |-> ips]
LookupResults == {LookupFailed} \cup {LookupIPs(ips) : ips \in SUBSET EntryAddrs \ {{}}}

\* A plausible slip: the hostname is preferred whenever it resolves at all.
CandidateIfResolves(entry, lookup) ==
    IF lookup.ok THEN TCPEndpoint(entry.Host, defaultTcpPort)
    ELSE TCPEndpoint(entry.AddrV4, defaultTcpPort)

\* The endpoint checkServer sends for a record, given what LookupIP returned.
Candidate(entry, lookup) ==
    LET resolvableIPv4 == lookup.ok /\ \E ip \in lookup.ips : ip = entry.AddrV4
    IN IF resolvableIPv4 THEN TCPEndpoint(entry.Host, defaultTcpPort)
       ELSE TCPEndpoint(entry.AddrV4, defaultTcpPort)

NoDiscovery ==
    /\ dpc = "none"
    /\ call = "none"
    /\ entries = <<>>
    /\ entriesClosed = 0
    /\ foundClosed = 0
    /\ cs = "none"
    /\ csEntry = NoEntry
    /\ cand = NilEndpoint
    /\ produced = <<>>
    /\ taken = 0
    /\ offered = 0
    /\ nRecords = 0
    /\ nDropped = 0
    /\ results = <<>>
    /\ result = NilEndpoint
    /\ ok = FALSE
    /\ timedOut = FALSE
    /\ crashed = FALSE

\* NewDiscovery up to the call of mdns.Lookup: both channels made, checkServer
\* started. A session is made by a process that has none, or by a new process
\* once the previous session was closed or the previous process went down.
NewDiscovery ==
    /\ dpc \in {"none", "returned"} \/ crashed
    /\ dpc' = "lookup"
    /\ call' = "none"
    /\ entries' = <<>>
    /\ entriesClosed' = 0
    /\ foundClosed' = 0
    /\ cs' = "range"
    /\ csEntry' = NoEntry
    /\ cand' = NilEndpoint
    /\ produced' = <<>>
    /\ taken' = 0
    /\ offered' = 0
    /\ nRecords' = 0
    /\ nDropped' = 0
    /\ results' = <<>>
    /\ result' = NilEndpoint
    /\ ok' = FALSE
    /\ timedOut' = FALSE
    /\ crashed' = FALSE
    /\ UNCHANGED <<cmdVars, epVars, brVars, opVars, nsVars>>

\* mdns.Lookup receives an advertisement and hands it to d.entries without
\* blocking: a record that finds the channel full is dropped.
LookupRecord ==
    /\ dpc = "lookup" /\ ~crashed
    /\ nRecords < MaxRecords
    /\ \E entry \in ServiceEntries :
        IF Len(entries) < EntriesCap
        THEN entries' = Append(entries, entry) /\ nDropped' = nDropped
        ELSE entries' = entries /\ nDropped' = nDropped + 1
    /\ nRecords' = nRecords + 1
    /\ UNCHANGED <<dpc, call, entriesClosed, foundClosed, cs, csEntry, cand, produced,
                   taken, offered, results, result, ok, timedOut, crashed>>
    /\ UNCHANGED <<cmdVars, epVars, brVars, opVars, nsVars>>

\* mdns.Lookup returns when its own timeout is over; NewDiscovery returns d.
LookupReturns ==
    /\ dpc = "lookup" /\ ~crashed
    /\ dpc' = "ready"
    /\ UNCHANGED <<call, entries, entriesClosed, foundClosed, cs, csEntry, cand,
                   produced, taken, offered, nRecords, nDropped, results, result, ok,
                   timedOut, crashed>>
    /\ UNCHANGED <<cmdVars, epVars, brVars, opVars, nsVars>>

\* checkServer: for entry := range d.entries receives a record.
CheckServerTake ==
    /\ cs = "range" /\ ~crashed
    /\ entries # <<>>
    /\ csEntry' = Head(entries)
    /\ entries' = Tail(entries)
    /\ taken' = taken + 1
    /\ cs' = "resolve"
    /\ UNCHANGED <<dpc, call, entriesClosed, foundClosed, cand, produced, offered,
                   nRecords, nDropped, results, result, ok, timedOut, crashed>>
    /\ UNCHANGED <<cmdVars, epVars, brVars, opVars, nsVars>>

\* checkServer: the range loop ends on the closed and drained d.entries.
CheckServerExit ==
    /\ cs = "range" /\ ~crashed
    /\ entries = <<>> /\ entriesClosed > 0
    /\ cs' = "exited"
    /\ UNCHANGED <<dpc, call, entries, entriesClosed, foundClosed, csEntry, cand,
                   produced, taken, offered, nRecords, nDropped, results, result, ok,
                   timedOut, crashed>>
    /\ UNCHANGED <<cmdVars, epVars, brVars, opVars, nsVars>>

\* checkServer: net.LookupIP and the choice of the candidate; the goroutine
\* then stands at its send on d.found.
CheckServerResolve ==
    /\ cs = "resolve" /\ ~crashed
    /\ \E lookup \in LookupResults :
        /\ cand' = Candidate(csEntry, lookup)
        /\ produced' = Append(produced, [entry |-> csEntry, lookup |-> lookup,
                                         cand |-> Candidate(csEntry, lookup)])
    /\ offered' = IF dpc \in {"lookup", "ready", "select"} THEN offered + 1 ELSE offered
    /\ cs' = "send"
    /\ UNCHANGED <<dpc, call, entries, entriesClosed, foundClosed, csEntry, taken,
                   nRecords, nDropped, results, result, ok, timedOut, crashed>>
    /\ UNCHANGED <<cmdVars, epVars, brVars, opVars, nsVars>>

\* checkServer: d.found <- ... on the closed channel panics, whether the
\* goroutine was blocked in the send when close(d.found) ran or came to it later.
CheckServerSendClosed ==
    /\ cs = "send" /\ ~crashed
    /\ foundClosed > 0
    /\ cs' = "panicked"
    /\ crashed' = TRUE
    /\ UNCHANGED <<dpc, call, entries, entriesClosed, foundClosed, csEntry, cand,
                   produced, taken, offered, nRecords, nDropped, results, result, ok,
                   timedOut>>
    /\ UNCHANGED <<cmdVars, epVars, brVars, opVars, nsVars>>

\* The caller enters FindAll or FindMaxOne, on a fresh session or on one an
\* earlier call has closed, and waits in its select.
Find ==
    /\ dpc \in {"ready", "returned"} /\ ~crashed
    /\ call' \in {"FindAll", "FindMaxOne"}
    /\ dpc' = "select"
    /\ results' = <<>>
    /\ result' = NilEndpoint
    /\ ok' = FALSE
    /\ timedOut' = FALSE
    /\ UNCHANGED <<entries, entriesClosed, foundClosed, cs, csEntry, cand, produced,
                   taken, offered, nRecords, nDropped, crashed>>
    /\ UNCHANGED <<cmdVars, epVars, brVars, opVars, nsVars>>

\* case result = <-d.found on the closed d.found (a call on a session that
\* was closed before): the receive yields nil at once.
SelectReceiveClosed ==
    /\ dpc = "select" /\ ~crashed
    /\ foundClosed > 0
    /\ result' = NilEndpoint
    /\ results' = IF call = "FindAll" THEN Append(results, NilEndpoint) ELSE results
    /\ ok' = (call = "FindMaxOne")
    /\ dpc' = "closeEntries"
    /\ UNCHANGED <<call, entries, entriesClosed, foundClosed, cs, csEntry, cand,
                   produced, taken, offered, nRecords, nDropped, timedOut, crashed>>
    /\ UNCHANGED <<cmdVars, epVars, brVars, opVars, nsVars>>

\* A plausible slip: ok is set but the received endpoint is not kept.
SelectReceiveDropsResult ==
    /\ dpc = "select" /\ ~crashed
    /\ cs = "send" /\ foundClosed = 0
    /\ result' = NilEndpoint
    /\ results' = IF call = "FindAll" THEN Append(results, cand) ELSE results
    /\ ok' = (call = "FindMaxOne")
    /\ cs' = "range"
    /\ dpc' = "closeEntries"
    /\ UNCHANGED <<call, entries, entriesClosed, foundClosed, csEntry, cand, produced,
                   taken, offered, nRecords, nDropped, timedOut, crashed>>
    /\ UNCHANGED <<cmdVars, epVars, brVars, opVars, nsVars>>

\* case result = <-d.found: the select meets checkServer's send. FindAll
\* appends the endpoint to results, FindMaxOne sets ok; checkServer goes on
\* with its loop and the caller with d.Close().
SelectReceive ==
    /\ dpc = "select" /\ ~crashed
    /\ cs = "send" /\ foundClosed = 0
    /\ result' = cand
    /\ results' = IF call = "FindAll" THEN Append(results, cand) ELSE results
    /\ ok' = (call = "FindMaxOne")
    /\ cs' = "range"
    /\ dpc' = "closeEntries"
    /\ UNCHANGED <<call, entries, entriesClosed, foundClosed, csEntry, cand, produced,
                   taken, offered, nRecords, nDropped, timedOut, crashed>>
    /\ UNCHANGED <<cmdVars, epVars, brVars, opVars, nsVars>>

\* A plausible slip: the timeout branch returns without d.Close().
SelectTimeoutNoClose ==
    /\ dpc = "select" /\ ~crashed
    /\ timedOut' = TRUE
    /\ ok' = FALSE
    /\ dpc' = "returned"
    /\ UNCHANGED <<call, entries, entriesClosed, foundClosed, cs, csEntry, cand,
                   produced, taken, offered, nRecords, nDropped, results, result,
                   crashed>>
    /\ UNCHANGED <<cmdVars, epVars, brVars, opVars, nsVars>>

\* case <-time.After(1 * time.Second): the select ends with nothing received.
SelectTimeout ==
    /\ dpc = "select" /\ ~crashed
    /\ timedOut' = TRUE
    /\ ok' = FALSE
    /\ dpc' = "closeEntries"
    /\ UNCHANGED <<call, entries, entriesClosed, foundClosed, cs, csEntry, cand,
                   produced, taken, offered, nRecords, nDropped, results, result,
                   crashed>>
    /\ UNCHANGED <<cmdVars, epVars, brVars, opVars, nsVars>>

\* The caller calls d.Close() itself, on a fresh session or on a closed one.
Close ==
    /\ dpc \in {"ready", "returned"} /\ ~crashed
    /\ call' = "Close"
    /\ dpc' = "closeEntries"
    /\ UNCHANGED <<entries, entriesClosed, foundClosed, cs, csEntry, cand, produced,
                   taken, offered, nRecords, nDropped, results, result, ok, timedOut,
                   crashed>>
    /\ UNCHANGED <<cmdVars, epVars, brVars, opVars, nsVars>>

\* Discovery.Close: close(d.entries). On the already closed channel the
\* close panics in the caller's goroutine.
CloseEntries ==
    /\ dpc = "closeEntries" /\ ~crashed
    /\ entriesClosed' = entriesClosed + 1
    /\ IF entriesClosed > 0
       THEN dpc' = "panicked" /\ crashed' = TRUE
       ELSE dpc' = "closeFound" /\ crashed' = crashed
    /\ UNCHANGED <<call, entries, foundClosed, cs, csEntry, cand, produced, taken,
                   offered, nRecords, nDropped, results, result, ok, timedOut>>
    /\ UNCHANGED <<cmdVars, epVars, brVars, opVars, nsVars>>

\* Discovery.Close: close(d.found); Close and the Find call return.
CloseFound ==
    /\ dpc = "closeFound" /\ ~crashed
    /\ foundClosed' = foundClosed + 1
    /\ dpc' = "returned"
    /\ UNCHANGED <<call, entries, entriesClosed, cs, csEntry, cand, produced, taken,
                   offered, nRecords, nDropped, results, result, ok, timedOut, crashed>>
    /\ UNCHANGED <<cmdVars, epVars, brVars, opVars, nsVars>>

\* ------------------------------------------------------------------ bridge
\* The web server handles at most MaxSessions /ws requests, one after the
\* other; the device's lines and the clients' messages are at most MaxTraffic
\* together.
MaxSessions == 2
MaxTraffic == 2

Sessions == 1..MaxSessions


\* What the device sends, line by line, and what a client sends.
DeviceRawLines == {<<"a", "\n">>, <<"b", "\r", "\n">>}
ClientMessages == {<<"x">>, <<"y", "\n">>}

\* bufio.ScanLines: the line without its "\n" and without a "\r" before it.
ScanLines(raw) ==
    LET noLF == IF raw # <<>> /\ raw[Len(raw)] = "\n" THEN SubSeq(raw, 1, Len(raw) - 1)
                ELSE raw
    IN IF noLF # <<>> /\ noLF[Len(noLF)] = "\r" THEN SubSeq(noLF, 1, Len(noLF) - 1)
       ELSE noLF

\* What Reader.Bytes() may hold when two goroutines were in Reader.Scan at
\* once (bufio.Scanner is not safe for concurrent use): anything.
Corrupt == <<"?">>

Front(seq) == SubSeq(seq, 1, Len(seq) - 1)

\* The server as NewLuciGoWebServer(hc) built it; no request handled yet.
ServerBuilt ==
    /\ srvDown = FALSE
    /\ started = 0
    /\ ws = [s \in Sessions |-> "none"]
    /\ wsBroken = [s \in Sessions |-> FALSE]
    /\ inpc = [s \in Sessions |-> "none"]
    /\ outpc = [s \in Sessions |-> "none"]
    /\ outEnd = [s \in Sessions |-> "none"]
    /\ doneClosed = [s \in Sessions |-> 0]
    /\ clientMsgs = [s \in Sessions |-> <<>>]
    /\ got = [s \in Sessions |-> <<>>]
    /\ wrote = [s \in Sessions |-> <<>>]
    /\ readToks = [s \in Sessions |-> <<>>]
    /\ sent = [s \in Sessions |-> <<>>]
    /\ devLines = <<>>
    /\ devSent = 0
    /\ devClosed = FALSE
    /\ scanEnded = FALSE
    /\ strmBroken = FALSE
    /\ nMsgs = 0
    /\ staleReads = 0
    /\ ident = "none"

NoBridge == srvHc = "nil" /\ ServerBuilt

NewLuciGoWebServer == srvHc \in {"nil", "empty", "set"} /\ ServerBuilt

\* startWebSocket up to its loop: Upgrade; on failure return; defer c.Close();
\* go luci2ws. A client connects when no handler of an earlier session runs.
\* Without a controller, or with one that was never opened (no Endpoint, no
\* Reader), luci2ws dereferences a nil pointer in its own goroutine.
StartWebSocket ==
    /\ ~srvDown
    /\ started < MaxSessions
    /\ \A s \in Sessions : inpc[s] \in {"none", "returned"}
    /\ started' = started + 1
    /\ \E upgraded \in BOOLEAN :
        IF ~upgraded
        THEN /\ inpc' = [inpc EXCEPT ![started + 1] = "returned"]
             /\ UNCHANGED <<ws, outpc, srvDown>>
        ELSE IF srvHc # "set"
        THEN /\ srvDown' = TRUE
             /\ ws' = [ws EXCEPT ![started + 1] = "open"]
             /\ UNCHANGED <<inpc, outpc>>
        ELSE /\ ws' = [ws EXCEPT ![started + 1] = "open"]
             /\ inpc' = [inpc EXCEPT ![started + 1] = "read"]
             /\ outpc' = [outpc EXCEPT ![started + 1] = "scan"]
             /\ UNCHANGED srvDown
    /\ UNCHANGED <<srvHc, wsBroken, outEnd, doneClosed, clientMsgs, got, wrote,
                   readToks, sent, devLines, devSent, devClosed, scanEnded, strmBroken,
                   nMsgs, staleReads, ident>>
    /\ UNCHANGED <<cmdVars, epVars, discVars, opVars, nsVars>>

\* A plausible slip: the message is written without the line terminator.
Ws2LuciNoTerminator ==
    /\ ~srvDown
    /\ \E s \in Sessions :
        /\ inpc[s] = "read"
        /\ IF ws[s] # "closed" /\ clientMsgs[s] # <<>>
           THEN /\ got' = [got EXCEPT ![s] = Append(got[s], Head(clientMsgs[s]))]
                /\ clientMsgs' = [clientMsgs EXCEPT ![s] = Tail(clientMsgs[s])]
                /\ IF strmBroken
                   THEN /\ inpc' = [inpc EXCEPT ![s] = "returned"]
                        /\ ws' = [ws EXCEPT ![s] = "closed"]
                        /\ UNCHANGED wrote
                   ELSE /\ wrote' = [wrote EXCEPT ![s] =
                                        Append(wrote[s], Head(clientMsgs[s]))]
                        /\ UNCHANGED <<inpc, ws>>
           ELSE /\ ws[s] = "closed" \/ wsBroken[s]
                /\ inpc' = [inpc EXCEPT ![s] = "returned"]
                /\ ws' = [ws EXCEPT ![s] = "closed"]
                /\ UNCHANGED <<got, clientMsgs, wrote>>
    /\ UNCHANGED <<srvHc, srvDown, started, wsBroken, outpc, outEnd, doneClosed, readToks, sent,
                   devLines, devSent, devClosed, scanEnded, strmBroken, nMsgs,
                   staleReads, ident>>
    /\ UNCHANGED <<cmdVars, epVars, discVars, opVars, nsVars>>

\* ws2luci, one turn of the handler's loop: c.ReadMessage(), then
\* server.Hc.Stream.Write(append(message, "\r\n")). ReadMessage fails on a
\* closed connection and, once the pending messages are read, on a broken
\* one; when either call fails the loop breaks, the handler returns and the
\* deferred c.Close() runs.
Ws2Luci ==
    /\ ~srvDown
    /\ \E s \in Sessions :
        /\ inpc[s] = "read"
        /\ IF ws[s] # "closed" /\ clientMsgs[s] # <<>>
           THEN /\ got' = [got EXCEPT ![s] = Append(got[s], Head(clientMsgs[s]))]
                /\ clientMsgs' = [clientMsgs EXCEPT ![s] = Tail(clientMsgs[s])]
                /\ IF strmBroken
                   THEN /\ inpc' = [inpc EXCEPT ![s] = "returned"]
                        /\ ws' = [ws EXCEPT ![s] = "closed"]
                        /\ UNCHANGED wrote
                   ELSE /\ wrote' = [wrote EXCEPT ![s] =
                                        Append(wrote[s], Head(clientMsgs[s]) \o CRLF)]
                        /\ UNCHANGED <<inpc, ws>>
           ELSE /\ ws[s] = "closed" \/ wsBroken[s]
                /\ inpc' = [inpc EXCEPT ![s] = "returned"]
                /\ ws' = [ws EXCEPT ![s] = "closed"]
                /\ UNCHANGED <<got, clientMsgs, wrote>>
    /\ UNCHANGED <<srvHc, srvDown, started, wsBroken, outpc, outEnd, doneClosed, readToks, sent,
                   devLines, devSent, devClosed, scanEnded, strmBroken, nMsgs,
                   staleReads, ident>>
    /\ UNCHANGED <<cmdVars, epVars, discVars, opVars, nsVars>>

\* The tokens Reader.Scan may hand to the luci2ws of session s for the line
\* at the head of the stream: the line without its terminator, or anything
\* when the luci2ws of another session is in Scan as well.
ScanTokens(s) ==
    {ScanLines(Head(devLines))}
        \cup (IF \E t \in Sessions \ {s} : outpc[t] = "scan" THEN {Corrupt} ELSE {})

\* Whether ws.WriteMessage succeeds: never on a closed connection, perhaps on
\* a broken one.
WriteMessageOutcomes(s) ==
    IF ws[s] = "closed" THEN {FALSE} ELSE IF wsBroken[s] THEN {TRUE, FALSE} ELSE {TRUE}

\* A plausible slip: after a failed WriteMessage the loop goes on.
Luci2wsGoesOn ==
    /\ ~srvDown
    /\ \E s \in Sessions :
        /\ outpc[s] = "scan"
        /\ IF devLines # <<>> /\ ~scanEnded
           THEN /\ \E tok \in ScanTokens(s), written \in WriteMessageOutcomes(s) :
                    /\ readToks' = [readToks EXCEPT ![s] = Append(readToks[s], tok)]
                    /\ IF written
                       THEN /\ sent' = [sent EXCEPT ![s] = Append(sent[s], tok)]
                            /\ UNCHANGED <<ws, outpc, outEnd, doneClosed>>
                       ELSE /\ ws' = [ws EXCEPT ![s] = "closed"]
                            /\ UNCHANGED <<sent, outpc, outEnd, doneClosed>>
                /\ devLines' = Tail(devLines)
                /\ staleReads' = IF inpc[s] = "returned" THEN staleReads + 1
                                 ELSE staleReads
                /\ UNCHANGED scanEnded
           ELSE /\ devClosed \/ scanEnded
                /\ scanEnded' = TRUE
                /\ outpc' = [outpc EXCEPT ![s] = "ended"]
                /\ outEnd' = [outEnd EXCEPT ![s] = "scan"]
                /\ doneClosed' = [doneClosed EXCEPT ![s] = doneClosed[s] + 1]
                /\ UNCHANGED <<readToks, sent, ws, devLines, staleReads>>
    /\ UNCHANGED <<srvHc, srvDown, started, wsBroken, inpc, clientMsgs, got, wrote,
                   devSent, devClosed, strmBroken, nMsgs, ident>>
    /\ UNCHANGED <<cmdVars, epVars, discVars, opVars, nsVars>>

\* A plausible slip: a failed WriteMessage returns from luci2ws at once,
\* without reaching close(done).
Luci2wsReturnsOnWriteFailure ==
    /\ ~srvDown
    /\ \E s \in Sessions :
        /\ outpc[s] = "scan"
        /\ IF devLines # <<>> /\ ~scanEnded
           THEN /\ \E tok \in ScanTokens(s), written \in WriteMessageOutcomes(s) :
                    /\ readToks' = [readToks EXCEPT ![s] = Append(readToks[s], tok)]
                    /\ IF written
                       THEN /\ sent' = [sent EXCEPT ![s] = Append(sent[s], tok)]
                            /\ UNCHANGED <<ws, outpc, outEnd, doneClosed>>
                       ELSE /\ ws' = [ws EXCEPT ![s] = "closed"]
                            /\ outpc' = [outpc EXCEPT ![s] = "ended"]
                            /\ outEnd' = [outEnd EXCEPT ![s] = "write"]
                            /\ UNCHANGED <<sent, doneClosed>>
                /\ devLines' = Tail(devLines)
                /\ staleReads' = IF inpc[s] = "returned" THEN staleReads + 1
                                 ELSE staleReads
                /\ UNCHANGED scanEnded
           ELSE /\ devClosed \/ scanEnded
                /\ scanEnded' = TRUE
                /\ outpc' = [outpc EXCEPT ![s] = "ended"]
                /\ outEnd' = [outEnd EXCEPT ![s] = "scan"]
                /\ doneClosed' = [doneClosed EXCEPT ![s] = doneClosed[s] + 1]
                /\ UNCHANGED <<readToks, sent, ws, devLines, staleReads>>
    /\ UNCHANGED <<srvHc, srvDown, started, wsBroken, inpc, clientMsgs, got, wrote,
                   devSent, devClosed, strmBroken, nMsgs, ident>>
    /\ UNCHANGED <<cmdVars, epVars, discVars, opVars, nsVars>>

\* luci2ws, one turn of its loop: server.Hc.Reader.Scan(), then
\* ws.WriteMessage(websocket.TextMessage, Reader.Bytes()). When WriteMessage
\* fails, ws.Close() and break; when Scan returns false (end of the stream)
\* the loop ends; after the loop done is closed and the goroutine ends.
Luci2ws ==
    /\ ~srvDown
    /\ \E s \in Sessions :
        /\ outpc[s] = "scan"
        /\ IF devLines # <<>> /\ ~scanEnded
           THEN /\ \E tok \in ScanTokens(s), written \in WriteMessageOutcomes(s) :
                    /\ readToks' = [readToks EXCEPT ![s] = Append(readToks[s], tok)]
                    /\ IF written
                       THEN /\ sent' = [sent EXCEPT ![s] = Append(sent[s], tok)]
                            /\ UNCHANGED <<ws, outpc, outEnd, doneClosed>>
                       ELSE /\ ws' = [ws EXCEPT ![s] = "closed"]
                            /\ outpc' = [outpc EXCEPT ![s] = "ended"]
                            /\ outEnd' = [outEnd EXCEPT ![s] = "write"]
                            /\ doneClosed' = [doneClosed EXCEPT ![s] = doneClosed[s] + 1]
                            /\ UNCHANGED sent
                /\ devLines' = Tail(devLines)
                /\ staleReads' = IF inpc[s] = "returned" THEN staleReads + 1
                                 ELSE staleReads
                /\ UNCHANGED scanEnded
           ELSE /\ devClosed \/ scanEnded
                /\ scanEnded' = TRUE
                /\ outpc' = [outpc EXCEPT ![s] = "ended"]
                /\ outEnd' = [outEnd EXCEPT ![s] = "scan"]
                /\ doneClosed' = [doneClosed EXCEPT ![s] = doneClosed[s] + 1]
                /\ UNCHANGED <<readToks, sent, ws, devLines, staleReads>>
    /\ UNCHANGED <<srvHc, srvDown, started, wsBroken, inpc, clientMsgs, got, wrote,
                   devSent, devClosed, strmBroken, nMsgs, ident>>
    /\ UNCHANGED <<cmdVars, epVars, discVars, opVars, nsVars>>

\* The client of a session sends a message.
ClientSends ==
    /\ ~srvDown
    /\ devSent + nMsgs < MaxTraffic
    /\ \E s \in Sessions :
        /\ ws[s] = "open" /\ ~wsBroken[s]
        /\ \E m \in ClientMessages :
            clientMsgs' = [clientMsgs EXCEPT ![s] = Append(clientMsgs[s], m)]
    /\ nMsgs' = nMsgs + 1
    /\ UNCHANGED <<srvHc, srvDown, started, ws, wsBroken, inpc, outpc, outEnd, doneClosed, got, wrote, readToks, sent, devLines, devSent, devClosed,
                   scanEnded, strmBroken, staleReads, ident>>
    /\ UNCHANGED <<cmdVars, epVars, discVars, opVars, nsVars>>

\* The client of a session disconnects, or its connection fails.
ClientLeaves ==
    /\ ~srvDown
    /\ \E s \in Sessions :
        /\ ws[s] = "open" /\ ~wsBroken[s]
        /\ wsBroken' = [wsBroken EXCEPT ![s] = TRUE]
    /\ UNCHANGED <<srvHc, srvDown, started, ws, inpc, outpc, outEnd, doneClosed, clientMsgs,
                   got, wrote, readToks, sent, devLines, devSent, devClosed,
                   scanEnded, strmBroken, nMsgs, staleReads, ident>>
    /\ UNCHANGED <<cmdVars, epVars, discVars, opVars, nsVars>>

\* The device sends a line on the controller's stream.
DeviceSendsLine ==
    /\ ~srvDown
    /\ srvHc = "set"
    /\ ~devClosed
    /\ devSent + nMsgs < MaxTraffic
    /\ \E raw \in DeviceRawLines : devLines' = Append(devLines, raw)
    /\ devSent' = devSent + 1
    /\ UNCHANGED <<srvHc, srvDown, started, ws, wsBroken, inpc, outpc, outEnd, doneClosed,
                   clientMsgs, got, wrote, readToks, sent, devClosed,
                   scanEnded, strmBroken, nMsgs, staleReads, ident>>
    /\ UNCHANGED <<cmdVars, epVars, discVars, opVars, nsVars>>

\* The controller's stream ends or fails on its read side.
DeviceEnds ==
    /\ ~srvDown
    /\ srvHc = "set"
    /\ ~devClosed
    /\ devClosed' = TRUE
    /\ UNCHANGED <<srvHc, srvDown, started, ws, wsBroken, inpc, outpc, outEnd, doneClosed,
                   clientMsgs, got, wrote, readToks, sent, devLines,
                   devSent, scanEnded, strmBroken, nMsgs, staleReads, ident>>
    /\ UNCHANGED <<cmdVars, epVars, discVars, opVars, nsVars>>

\* The controller's stream stops taking writes.
StreamBreaks ==
    /\ ~srvDown
    /\ srvHc = "set"
    /\ ~strmBroken
    /\ strmBroken' = TRUE
    /\ UNCHANGED <<srvHc, srvDown, started, ws, wsBroken, inpc, outpc, outEnd, doneClosed,
                   clientMsgs, got, wrote, readToks, sent, devLines,
                   devSent, devClosed, scanEnded, nMsgs, staleReads, ident>>
    /\ UNCHANGED <<cmdVars, epVars, discVars, opVars, nsVars>>

\* webServerIdent: proxy_target stays nil unless there is a controller with
\* an endpoint; the document is built with *proxy_target. The panic of a nil
\* dereference ends the request without an answer (net/http recovers it).
WebServerIdent ==
    /\ ~srvDown
    /\ ident' = IF srvHc = "set" THEN "document" ELSE "panic"
    /\ UNCHANGED <<srvHc, srvDown, started, ws, wsBroken, inpc, outpc, outEnd, doneClosed,
                   clientMsgs, got, wrote, readToks, sent, devLines,
                   devSent, devClosed, scanEnded, strmBroken, nMsgs, staleReads>>
    /\ UNCHANGED <<cmdVars, epVars, discVars, opVars, nsVars>>

\* ------------------------------------------------------------------ claims
\* The call has read from the stream: it sits in its read loop or is back from it.
InLoopOrBack == pc \in {"scan", "done"} /\ reads > 0

\* C1: whenever a call that read at least one exact echo of its own request
\* line has returned, it returned the first line it read that differs from
\* that request line, decoded as the response, with a nil error.
C1_EchoFiltered ==
    (pc = "done" /\ nEcho >= 1 /\ (firstOther # NoLine \/ accepted # NoLine))
        => (accepted = firstOther /\ resp = UnmarshalRecv(firstOther) /\ err = "nil")

\* C2: a call whose read loop ended because Scan returned false (end of
\* stream or read error) before any line was accepted returns an error.
C2_ReadFailureIsError ==
    (pc = "done" /\ reads > 0 /\ accepted = NoLine) => err # "nil"

\* C3: a call whose Stream.Write fails returns the write error with a nil
\* response, having written once and read nothing; a Command issued on a
\* usable controller whose stream no longer takes writes ends that way.
C3_WriteFailureAborts ==
    /\ [](pc = "done" /\ err = "write" => resp = NilRecv /\ reads = 0 /\ writes = 1)
    /\ [][(nextId' # nextId /\ hc = "open" /\ wrBroken /\ MarshalOk(req'))
            => (pc' = "done" /\ err' = "write" /\ resp' = NilRecv
                /\ reads' = 0 /\ writes' = 1 /\ inbuf' = inbuf)]_vars

\* C3 witness: a call returned the write error.
C3_Witness == pc = "done" /\ err = "write" /\ writes = 1 /\ reads = 0 /\ wrBroken

\* C4 as stated: a call on a nil controller or on one whose Stream is nil
\* returns the "uninitialized controller" error and a nil response and
\* neither writes nor reads.
C4_UninitializedError ==
    (pc = "done" /\ hc \in {"nil", "zero"})
        => (err = "uninit" /\ resp = NilRecv /\ writes = 0 /\ reads = 0)

\* C4 amended: a call on a nil controller or on one whose Stream is nil never
\* enters the read loop and returns a nil response and an error, having
\* written and read nothing; the error is the "uninitialized controller"
\* error when the envelope serializes and the serialization error otherwise.
C4_UninitializedOrMarshalError ==
    hc \in {"nil", "zero"}
        => /\ pc # "scan"
           /\ pc = "done"
                => /\ resp = NilRecv /\ writes = 0 /\ reads = 0
                   /\ err = IF MarshalOk(req) THEN "uninit" ELSE "marshal"

\* C4 witness: a serializable request was refused by a controller without a stream.
C4_Witness == pc = "done" /\ hc = "zero" /\ err = "uninit" /\ MarshalOk(req)

\* C5: when the first line a call reads that differs from its request line is
\* a JSON object whose type is not the request's type, the call returns at
\* that line: the line decoded as the response, a nil error, and the warning
\* printed.
C5_TypeMismatchAccepted ==
    (InLoopOrBack /\ firstOther.json /\ UnmarshalRecv(firstOther).Type # req.Type)
        => /\ pc = "done"
           /\ accepted = firstOther
           /\ resp = UnmarshalRecv(firstOther)
           /\ err = "nil"
           /\ warned

\* C5 witness: a success reply of the other type was returned after an echo.
C5_Witness ==
    /\ pc = "done" /\ nEcho = 1 /\ warned
    /\ accepted.json /\ accepted.code = 0 /\ accepted.id = req.Id
    /\ resp.Type \in Types /\ resp.Type # req.Type

\* C6: when the first line a call reads that differs from its request line is
\* a JSON object carrying another id than the request's, the call returns at
\* that line, decoded as the response with that other id, and a nil error.
C6_IdNotCompared ==
    (InLoopOrBack /\ firstOther.json /\ UnmarshalRecv(firstOther).Id # req.Id)
        => /\ pc = "done"
           /\ accepted = firstOther
           /\ resp = UnmarshalRecv(firstOther)
           /\ resp.Id # req.Id
           /\ err = "nil"

\* C6 witness: the success reply to the earlier request, of the same type as
\* the current one, was returned as the response to the current request.
C6_Witness ==
    /\ pc = "done" /\ req.Id = 2 /\ err = "nil"
    /\ accepted.json /\ accepted.code = 0 /\ accepted.id = 1
    /\ resp.Type = req.Type /\ resp.Id = 1 /\ ~warned

\* C7: a call leaves its read loop only by accepting a line that is no echo
\* or because Scan returned false; while the stream is open and every line
\* read so far was an echo it stays in the loop, however many lines it read.
C7_NoLimitNoTimeout ==
    /\ [](pc = "done" /\ writes = 1 /\ err = "nil" => accepted # NoLine \/ scanDone)
    /\ [][(pc = "scan" /\ pc' # "scan")
            => \/ inbuf # <<>> /\ ~IsEcho(Head(inbuf), req)
               \/ inbuf = <<>> /\ (rdClosed \/ scanDone)]_vars
    /\ [][(pc = "scan" /\ inbuf # <<>> /\ IsEcho(Head(inbuf), req) /\ reads' # reads)
            => pc' = "scan"]_vars

\* C7 witness: the device has only echoed, as often as it may send at all, the
\* stream is open, and the call is still waiting.
C7_Witness ==
    /\ pc = "scan" /\ reads = MaxLines /\ nEcho = MaxLines
    /\ inbuf = <<>> /\ ~rdClosed /\ ~scanDone

\* C8: a call issued on a controller on which an earlier call met a write or
\* read failure returns an error.
C8_UnusableAfterIOError ==
    (pc = "done" /\ afterFail) => err # "nil"

\* The hosts of HostTexts that a URL may name, and the port texts of PortTexts
\* that are no port (omitted) or a number within 0..65535.
NamedHosts == {h \in HostTexts : h # <<>> /\ \A k \in 1..Len(h) : h[k] # " "}
PortOmitted(p) == p[1] \in {<<>>, <<":">>}
PortsInRange == {p \in PortTexts : PortOmitted(p) \/ p[2] \in 0..65535}

\* C9: for every string tcp://host[:port] with a host of NamedHosts and a port
\* of PortsInRange, ParseEndpoint returns no error and the TCP endpoint with
\* exactly that host and that port, and with port 5732 when the port is omitted.
C9_NetworkEndpointParsed ==
    epc # "start" =>
        \A h \in NamedHosts, p \in PortsInRange :
            input = <<"t", "c", "p", ":", "/", "/">> \o h \o p[1]
                => ep = [e |-> [kind |-> "tcp", Host |-> h,
                                Port |-> IF PortOmitted(p) THEN 5732 ELSE p[2],
                                Device |-> <<>>],
                         err |-> "nil"]

\* C9 witness: tcp://1.2:123 was parsed to host 1.2, port 123.
C9_Witness ==
    /\ epc = "parsed"
    /\ input = <<"t", "c", "p", ":", "/", "/", "1", ".", "2", ":", "1", "2", "3">>
    /\ ep.err = "nil" /\ ep.e.Host = <<"1", ".", "2">> /\ ep.e.Port = 123

\* C10: for every endpoint e that ParseEndpoint returned, ParseEndpoint(e.ToURL())
\* returns no error and an endpoint equal to e.
C10_RoundTrip ==
    epc = "reparsed" => (ep2.err = "nil" /\ ep2.e = ep.e)

\* The port texts of PortTexts that are digits only (or absent): the ones a
\* URL authority may carry.
NumericPorts == {p \in PortTexts : PortOmitted(p) \/ p[2] >= 0}

C12_SerialPathOnly ==
    epc # "start" =>
        \A pa \in PathTexts \ {<<>>} :
            input = <<"s", "e", "r", "i", "a", "l", ":", "/", "/">> \o pa
                => ep = [e |-> [kind |-> "serial", Host |-> <<>>, Port |-> 0,
                                Device |-> pa],
                         err |-> "nil"]

\* A string has a scheme and an authority when its first colon follows at
\* least one character and is followed by "//" and a character that is no "/".
HasSchemeAndAuthority(s) ==
    LET c == Index(s, ":")
    IN /\ c > 1
       /\ Len(s) >= c + 3
       /\ s[c + 1] = "/" /\ s[c + 2] = "/" /\ s[c + 3] # "/"

\* C13: for every string without a scheme or without an authority
\* ParseEndpoint returns an error, and whenever ParseEndpoint returns an error
\* the endpoint it returns is nil.
C13_MalformedRejected ==
    epc # "start" =>
        /\ ~HasSchemeAndAuthority(input) => ep.err # "nil"
        /\ ep.err # "nil" => ep.e = NilEndpoint

\* C13 witness: serial:///dev/null was rejected with a nil endpoint.
C13_Witness ==
    /\ epc = "parsed"
    /\ input = <<"s", "e", "r", "i", "a", "l", ":", "/", "/", "/", "d", "e", "v",
                 "/", "n", "u", "l", "l">>
    /\ ep.err = "need to provide" /\ ep.e = NilEndpoint

\* C14: for every string tcp://host:port whose port text is supplied and is
\* not a number within 0..65535, ParseEndpoint returns an error.
C14_PortIsUint16 ==
    epc # "start" =>
        \A h \in NamedHosts, p \in PortTexts \ PortsInRange :
            input = <<"t", "c", "p", ":", "/", "/">> \o h \o p[1]
                => ep.err # "nil"

\* The schemes of SchemeTexts that name no transport, compared as url.Parse
\* compares them (case-insensitively).
OtherSchemes ==
    {sc \in SchemeTexts :
        sc # <<>> /\ ToLower(sc) \notin {<<"t", "c", "p">>, <<"s", "e", "r", "i", "a", "l">>}}

\* C15: for every string scheme://host[:port][path] with a host of NamedHosts
\* whose scheme is neither tcp nor serial, ParseEndpoint returns an error and
\* a nil endpoint.
C15_OtherSchemeRejected ==
    epc # "start" =>
        \A sc \in OtherSchemes, h \in NamedHosts, p \in PortTexts, pa \in PathTexts :
            input = sc \o <<":", "/", "/">> \o h \o p[1] \o pa
                => (ep.err # "nil" /\ ep.e = NilEndpoint)

\* C15 witness: net://h was rejected as a scheme ParseEndpoint does not know.
C15_Witness ==
    /\ epc = "parsed"
    /\ input = <<"n", "e", "t", ":", "/", "/", "h">>
    /\ ep.err = "don't know" /\ ep.e = NilEndpoint

\* The caller's Find call has left its select.
PastSelect == dpc \in {"closeEntries", "closeFound", "returned"}

\* C16: checkServer never panics: a send on d.found that is pending or is
\* started when the session is closed is ignored and the process stays up.
C16_SendOnClosedIgnored ==
    ~crashed /\ cs # "panicked"

\* C17: a FindAll or FindMaxOne that ended by the timeout returns an empty
\* list, respectively (nil, ok = false), and has closed d.entries and d.found
\* exactly once each; a session that received no record ends that way, with
\* the process up.
C17_TimeoutClosesOnce ==
    (dpc = "returned" /\ call \in {"FindAll", "FindMaxOne"})
        => /\ timedOut => /\ results = <<>> /\ result = NilEndpoint /\ ~ok
                          /\ entriesClosed = 1 /\ foundClosed = 1
           /\ nRecords = 0 => timedOut /\ ~crashed

\* C17 witness: FindMaxOne returned by the timeout in a session without records.
C17_Witness ==
    /\ dpc = "returned" /\ call = "FindMaxOne" /\ nRecords = 0 /\ timedOut
    /\ entriesClosed = 1 /\ foundClosed = 1 /\ cs = "exited"

\* C18: FindAll leaves its select only when the window has elapsed, and its
\* results hold every candidate checkServer had ready before that.
C18_FindAllCollectsWindow ==
    (call = "FindAll" /\ PastSelect)
        => (timedOut /\ Len(results) = offered)

\* C19: FindMaxOne returns (nil, ok = false) when its select ended by the
\* timeout and otherwise (e, ok = true) with e the first candidate checkServer
\* produced, which is no nil endpoint.
C19_FindMaxOneFirstOrTimeout ==
    (call = "FindMaxOne" /\ dpc = "returned")
        => IF timedOut THEN result = NilEndpoint /\ ~ok
           ELSE /\ ok
                /\ result # NilEndpoint
                /\ produced # <<>>
                /\ result = produced[1].cand

\* C19 witness: FindMaxOne returned the first of two candidates' records.
C19_Witness ==
    /\ dpc = "returned" /\ call = "FindMaxOne" /\ ok /\ ~timedOut
    /\ nRecords >= 2 /\ result = produced[1].cand /\ result.kind = "tcp"

\* C20: every record checkServer resolved produced one candidate, a TCP
\* endpoint on port 5732 whose host is the record's hostname iff the lookup
\* succeeded and returned the announced address, and the announced address
\* otherwise; no record produced more than one.
C20_CandidatePerRecord ==
    /\ \A k \in 1..Len(produced) :
        LET matches == produced[k].lookup.ok
                        /\ produced[k].entry.AddrV4 \in produced[k].lookup.ips
        IN /\ produced[k].cand.kind = "tcp"
           /\ produced[k].cand.Port = 5732
           /\ matches => produced[k].cand.Host = produced[k].entry.Host
           /\ ~matches => produced[k].cand.Host = produced[k].entry.AddrV4
    /\ Len(produced) = taken - (IF cs = "resolve" THEN 1 ELSE 0)
    /\ cs = "send" => cand = produced[Len(produced)].cand

\* C20 witness: a hostname that resolved, but not to the announced address,
\* gave the announced address as the candidate's host.
C20_Witness ==
    /\ cs = "send" /\ produced # <<>>
    /\ produced[1].lookup.ok /\ produced[1].entry.AddrV4 \notin produced[1].lookup.ips
    /\ cand.Host = produced[1].entry.AddrV4 /\ cand.Port = 5732

\* C21: in every bridge session the socket connection is closed once either
\* direction has stopped: when luci2ws has ended, for whatever reason, and
\* when the handler's loop has ended.
C21_EitherEndsSession ==
    \A s \in Sessions :
        /\ outpc[s] = "ended" => ws[s] = "closed"
        /\ (inpc[s] = "returned" /\ ws[s] # "none") => ws[s] = "closed"

\* C22: the text messages a luci2ws has sent are the tokens Scan returned to
\* it, one message per token and in that order, but for a last token whose
\* WriteMessage failed; it has ended iff Scan returned false or a WriteMessage
\* failed, and once ended it neither reads nor sends.
C22_OutboundOneToOne ==
    /\ [](\A s \in Sessions :
            /\ sent[s] = IF outEnd[s] = "write" THEN Front(readToks[s]) ELSE readToks[s]
            /\ outpc[s] = "ended" <=> outEnd[s] # "none"
            /\ outEnd[s] = "scan" => scanEnded
            /\ outEnd[s] = "write" => ws[s] = "closed")
    /\ [][\A s \in Sessions :
            outpc[s] = "ended"
                => /\ outpc'[s] = "ended"
                   /\ readToks'[s] = readToks[s]
                   /\ sent'[s] = sent[s]]_vars

\* C22 witness: both lines of the device were forwarded to the client of one
\* session, in the order sent and without their terminators.
C22_Witness ==
    \E s \in Sessions :
        /\ outpc[s] = "scan" /\ ws[s] = "open"
        /\ Len(sent[s]) = 2 /\ sent[s] = readToks[s]
        /\ sent[s][1] # sent[s][2]
        /\ \A k \in 1..2 : sent[s][k] \in {<<"a">>, <<"b">>}

\* C23: what a handler has written to the controller's stream are the
\* messages ReadMessage returned to it, each followed by CRLF, one write per
\* message and in that order, but for a last message whose write failed,
\* after which the handler has returned; a handler that returned stays so.
C23_InboundVerbatim ==
    /\ [](\A s \in Sessions :
            /\ Len(wrote[s]) \in {Len(got[s]), Len(got[s]) - 1}
            /\ Len(wrote[s]) # Len(got[s]) => (inpc[s] = "returned" /\ strmBroken)
            /\ \A k \in 1..Len(wrote[s]) : wrote[s][k] = got[s][k] \o <<"\r", "\n">>)
    /\ [][\A s \in Sessions :
            inpc[s] = "returned"
                => /\ inpc'[s] = "returned"
                   /\ got'[s] = got[s]
                   /\ wrote'[s] = wrote[s]]_vars

\* C23 witness: two different messages of one client were written to the
\* stream, in order.
C23_Witness ==
    \E s \in Sessions :
        /\ Len(wrote[s]) = 2 /\ Len(got[s]) = 2
        /\ got[s][1] # got[s][2]
        /\ wrote[s][2] = got[s][2] \o <<"\r", "\n">>

\* C24: when the handler of a session has returned, the luci2ws of that
\* session has ended.
C24_HandlerJoinsOutbound ==
    \A s \in Sessions : inpc[s] = "returned" => outpc[s] \in {"none", "ended"}

\* C25: webServerIdent answers every request with the document, also when
\* the server has no controller or the controller has no endpoint.
C25_IdentAlwaysAnswers ==
    (ident # "none" /\ srvHc \in {"nil", "empty"}) => ident = "document"

\* C26: on one Discovery session close(d.entries) and close(d.found) are
\* executed at most once each, whatever FindAll, FindMaxOne and Close calls
\* are made on it.
C26_ClosedAtMostOnce ==
    entriesClosed <= 1 /\ foundClosed <= 1

\* C27: once FindAll or FindMaxOne has returned, checkServer has ended
\* normally or waits, with nothing left to do, for the end of its range loop
\* over the closed and drained d.entries.
C27_ListenerEnds ==
    (dpc = "returned" /\ call \in {"FindAll", "FindMaxOne"})
        => (cs = "exited" \/ (cs = "range" /\ entries = <<>>))

\* C28: at most one luci2ws is in Reader.Scan at any time, and no token was
\* returned to a luci2ws whose handler had returned.
C28_SingleReader ==
    /\ Cardinality({s \in Sessions : outpc[s] = "scan"}) <= 1
    /\ staleReads = 0

\* C29: with a device that answers every request with echoes of it and then
\* one reply, a call that returned without error returned the reply to its
\* own request, having read nothing but echoes before it, and a call still
\* waiting has read nothing but echoes.
C29_SequentialConversation ==
    /\ (pc = "done" /\ err = "nil")
            => /\ IsReplyTo(accepted, req)
               /\ resp = UnmarshalRecv(accepted)
               /\ reads = nEcho + 1
    /\ pc = "scan" => (firstOther = NoLine /\ reads = nEcho)

\* C30: a response returned with a nil error was decoded from a line the
\* call read, and it reports code 0 only if that line is JSON and carries
\* code 0.
C30_ResponseFromDeviceLine ==
    (pc = "done" /\ err = "nil")
        => /\ accepted # NoLine
           /\ resp = UnmarshalRecv(accepted)
           /\ resp.Code = 0 => (accepted.json /\ accepted.code = 0)

\* ------------------------------------------------- opening an endpoint
\* How many NewHybridController calls one run makes.
MaxOpens == 2

\* How many bytes the device may hold buffered when it is opened.
MaxBuffered == 2

\* An endpoint value of another dynamic type than TCPEndpoint or
\* SerialEndpoint (a *TCPEndpoint, a foreign implementation).
OtherEndpoint == [kind |-> "other", Host |-> <<>>, Port |-> 0, Device |-> <<>>]

\* The endpoints handed to NewHybridController: TCP endpoints with and
\* without host and port, serial endpoints with and without device, the nil
\* interface, a value of another type.
OpenEndpoints ==
    {TCPEndpoint(h, p) : h \in {<<>>, <<"h">>, <<"1", ".", "2">>},
                         p \in {0, 123, defaultTcpPort}}
    \cup {SerialEndpoint(d) : d \in {<<>>, <<"C", "O", "M", "1">>,
                                     <<"/", "d", "e", "v", "/", "n", "u", "l", "l">>}}
    \cup {NilEndpoint, OtherEndpoint}

\* No NewHybridController call is made.
NoOpen ==
    /\ opc = "idle"
    /\ opEndpoint = NilEndpoint
    /\ nOpens = 0
    /\ opened = "none"
    /\ attempts = 0
    /\ flushes = 0
    /\ flushedNil = FALSE
    /\ buffered = 0
    /\ opHc = "nil"
    /\ opStream = "nil"
    /\ opReader = "nil"
    /\ opErr = "nil"
    /\ opDown = FALSE

\* A plausible slip: the half-built controller is returned along with the error.
ReturnErrorWithController(why) ==
    /\ opc' = "returned"
    /\ opHc' = "controller" /\ opStream' = "nil" /\ opReader' = "nil"
    /\ opErr' = why

\* NewHybridController: return nil, err.
ReturnError(why) ==
    /\ opc' = "returned"
    /\ opHc' = "nil" /\ opStream' = "nil" /\ opReader' = "nil"
    /\ opErr' = why

\* NewHybridController: hc.Stream is the opened stream, hc.Reader =
\* bufio.NewScanner(hc.Stream); return hc, nil.
ReturnController(stream) ==
    /\ opc' = "returned"
    /\ opHc' = "controller" /\ opStream' = stream /\ opReader' = stream
    /\ opErr' = "nil"

\* NewHybridController(endpoint) up to eps.Open(): the type switch; any
\* other type than TCPEndpoint and SerialEndpoint returns an error at once.
\* The device may hold bytes it sent before the call (boot chatter).
NewHybridControllerSwitch ==
    /\ opc \in {"idle", "returned"}
    /\ ~opDown
    /\ nOpens < MaxOpens
    /\ nOpens' = nOpens + 1
    /\ \E e \in OpenEndpoints :
        /\ opEndpoint' = e
        /\ IF e.kind \in {"tcp", "serial"}
           THEN /\ opc' = "open"
                /\ opHc' = "nil" /\ opStream' = "nil" /\ opReader' = "nil"
                /\ opErr' = "nil"
           ELSE ReturnError("type")
    /\ buffered' \in 0..MaxBuffered
    /\ opened' = "none"
    /\ attempts' = 0
    /\ flushes' = 0
    /\ flushedNil' = FALSE
    /\ UNCHANGED opDown
    /\ UNCHANGED <<cmdVars, epVars, discVars, brVars, nsVars>>

\* TCPEndpoint.Open and the rest of NewHybridController: an invalid endpoint
\* is refused without dialling; else net.Dial("tcp", HostPort), whose error
\* is returned, or whose connection becomes hc.Stream.
TCPEndpointOpen ==
    /\ opc = "open"
    /\ opEndpoint.kind = "tcp"
    /\ IF ~IsValid(opEndpoint)
       THEN /\ ReturnError("invalid")
            /\ UNCHANGED <<opened, attempts>>
       ELSE /\ attempts' = attempts + 1
            /\ \E dialled \in BOOLEAN :
                IF dialled
                THEN opened' = "ok" /\ ReturnController("conn")
                ELSE opened' = "failed" /\ ReturnError("dial")
    /\ UNCHANGED <<opEndpoint, nOpens, flushes, flushedNil, buffered, opDown>>
    /\ UNCHANGED <<cmdVars, epVars, discVars, brVars, nsVars>>

\* A plausible slip: Flush is called before the error of OpenPort is looked at.
SerialOpenPortFlushFirst ==
    /\ opc = "open"
    /\ opEndpoint.kind = "serial"
    /\ attempts' = attempts + 1
    /\ flushes' = flushes + 1
    /\ \E portOpen \in (IF opEndpoint.Device = <<>> THEN {FALSE} ELSE BOOLEAN) :
        IF portOpen
        THEN /\ opened' = "ok"
             /\ buffered' = 0
             /\ ReturnController("port")
             /\ UNCHANGED <<flushedNil, opDown>>
        ELSE /\ opened' = "failed"
             /\ flushedNil' = TRUE
             /\ opDown' = TRUE
             /\ ReturnError("open")
             /\ UNCHANGED buffered
    /\ UNCHANGED <<opEndpoint, nOpens>>
    /\ UNCHANGED <<cmdVars, epVars, discVars, brVars, nsVars>>

\* SerialEndpoint.Open up to its error check: serial.OpenPort(Name: Device,
\* Baud: 115200); on an error Open returns nil, err and so does
\* NewHybridController. A device without a name cannot be opened.
SerialOpenPort ==
    /\ opc = "open"
    /\ opEndpoint.kind = "serial"
    /\ attempts' = attempts + 1
    /\ \E portOpen \in (IF opEndpoint.Device = <<>> THEN {FALSE} ELSE BOOLEAN) :
        IF portOpen
        THEN /\ opened' = "ok"
             /\ opc' = "flush"
             /\ UNCHANGED <<opHc, opStream, opReader, opErr>>
        ELSE /\ opened' = "failed"
             /\ ReturnError("open")
    /\ UNCHANGED <<opEndpoint, nOpens, flushes, flushedNil, buffered, opDown>>
    /\ UNCHANGED <<cmdVars, epVars, discVars, brVars, nsVars>>

\* SerialEndpoint.Open after a successful OpenPort: sock.Flush() discards
\* what the device has buffered, return sock, nil; NewHybridController makes
\* it hc.Stream and returns the controller.
SerialFlush ==
    /\ opc = "flush"
    /\ flushes' = flushes + 1
    /\ buffered' = 0
    /\ ReturnController("port")
    /\ UNCHANGED <<opEndpoint, nOpens, opened, attempts, flushedNil, opDown>>
    /\ UNCHANGED <<cmdVars, epVars, discVars, brVars, nsVars>>

\* ------------------------------------------------------------- net-set
\* How many entries the patch of one net-set command has at most.
MaxPatch == 2

\* A leaf of the configuration: a string, or a boolean (held as its text).
Leaf(t, v) == [t |-> t, v |-> v]
NoLeaf == Leaf("none", <<>>)
TrueText == <<"t", "r", "u", "e">>
FalseText == <<"f", "a", "l", "s", "e">>

\* treatBool: "true" and "false" in any letter case become booleans, any
\* other value stays the string it is.
TreatBool(val) ==
    IF ToLower(val) = TrueText THEN Leaf("bool", TrueText)
    ELSE IF ToLower(val) = FalseText THEN Leaf("bool", FalseText)
    ELSE Leaf("string", val)

\* A value of cur: a map[string]interface{} (a dictionary of leaves) or
\* anything else (a scalar).
EmptyDict == [k \in {} |-> NoLeaf]
Scalar(leaf) == [kind |-> "scalar", leaf |-> leaf, sub |-> EmptyDict]
Dict(sub) == [kind |-> "dict", leaf |-> NoLeaf, sub |-> sub]

\* cur, a map[string]interface{}: the nil map (a response without "msg") or
\* a map from keys to values.
EmptyTop == [k \in {} |-> Scalar(NoLeaf)]
NilMap == [nil |-> TRUE, top |-> EmptyTop]
Map(top) == [nil |-> FALSE, top |-> top]

\* m[k] = v on a Go map.
Put(m, k, v) == [x \in DOMAIN m \cup {k} |-> IF x = k THEN v ELSE m[x]]

\* The configurations net_get answers with: the nil map, the empty map, and
\* maps over the keys a, b, x with dictionaries and scalars as values.
Configs ==
    LET a == <<"a">>
        b == <<"b">>
        x == <<"x">>
        y == <<"y">>
        one == Leaf("string", <<"1">>)
        two == Leaf("string", <<"2">>)
        str == Leaf("string", <<"s">>)
    IN { NilMap,
         Map(EmptyTop),
         Map(a :> Dict(x :> one)),
         Map(a :> Dict(x :> one) @@ b :> Dict(x :> two)),
         Map(a :> Dict(y :> Leaf("bool", TrueText)) @@ b :> Dict(x :> two)),
         Map(a :> Scalar(str) @@ b :> Dict(x :> two)),
         Map(a :> Dict(EmptyDict) @@ x :> Scalar(str)) }

\* CLI.NetSet.Settings, a map[string]string of one to MaxPatch entries: keys
\* with and without dots, values that are booleans in some letter case and
\* values that are not.
Patches ==
    LET keys == { <<"x">>, <<"y">>, <<"a">>, <<"a", ".", "x">>, <<"a", ".", "y">>,
                  <<"c", ".", "x">>, <<"a", ".", "x", ".", "y">> }
        values == { TrueText, <<"T", "r", "u", "e">>, <<"F", "a", "l", "s", "e">>,
                    <<"5">>, <<"t", "r", "u">> }
    IN UNION { [K -> values] :
                 K \in {K \in SUBSET keys : Cardinality(K) \in 1..MaxPatch} }
EmptyPatch == [k \in {} |-> <<>>]
NoPatchEntry == [key |-> <<>>, val |-> <<>>, merged |-> FALSE]

\* A request the command sent: its type and its payload.
SentRequest(type, msg) == [Type |-> type, Msg |-> msg]

\* strings.Cut(ink, "."): the text before and after the first dot.
Cut(ink) ==
    LET k == Index(ink, ".")
    IN IF k = 0 THEN [head |-> ink, tail |-> <<>>, found |-> FALSE]
       ELSE [head |-> SubSeq(ink, 1, k - 1), tail |-> From(ink, k + 1), found |-> TRUE]

\* The result of one pass of net_set's loop: cur after it, whether the pass
\* panicked, whether it printed "Found multiple candidates".
Pass(cur, outcome) ==
    [cur |-> cur, panic |-> outcome = "panic", multiple |-> outcome = "multiple"]

\* cand_head: the keys of cur whose value is a dictionary that holds ink.
CandHead(cur, ink) ==
    {park \in DOMAIN cur.top :
        cur.top[park].kind = "dict" /\ ink \in DOMAIN cur.top[park].sub}

\* cur[k] = v: an assignment to an entry of the nil map panics.
SetTop(cur, k, v) ==
    IF cur.nil THEN Pass(cur, "panic") ELSE Pass(Map(Put(cur.top, k, v)), "merged")

\* cur[head].(map[string]interface{})[k] = leaf: the type assertion panics
\* when cur[head] is no dictionary.
SetIn(cur, head, k, leaf) ==
    IF cur.top[head].kind # "dict" THEN Pass(cur, "panic")
    ELSE Pass(Map(Put(cur.top, head, Dict(Put(cur.top[head].sub, k, leaf)))), "merged")

\* net_set, one pass of its loop: the entry ink = inv merged into cur.
MergeEntry(cur, ink, inv) ==
    LET c == Cut(ink)
        candHead == CandHead(cur, ink)
    IN IF ~c.found
       THEN IF candHead = {} THEN SetTop(cur, ink, Scalar(TreatBool(inv)))
            ELSE IF Cardinality(candHead) = 1
            THEN SetIn(cur, CHOOSE park \in candHead : TRUE, ink, TreatBool(inv))
            ELSE Pass(cur, "multiple")
       ELSE IF c.head \notin DOMAIN cur.top
            THEN IF cur.nil THEN Pass(cur, "panic")
                 ELSE SetIn(Map(Put(cur.top, c.head, Dict(EmptyDict))), c.head,
                            c.tail, TreatBool(inv))
            ELSE SetIn(cur, c.head, c.tail, TreatBool(inv))

\* No net-set command runs.
NoNetSet ==
    /\ nspc = "idle"
    /\ nsPatch = EmptyPatch
    /\ nsCur = NilMap
    /\ nsBefore = NilMap
    /\ nsEntry = NoPatchEntry
    /\ nsMultiple = FALSE
    /\ nsSent = <<>>
    /\ nsPrinted = NilMap

\* The command "net-set <settings>", net_set up to its loop:
\* getHybridController().Query("net_get"); an error ends the process
\* (log.Fatal), else cur is the Msg of whatever response came.
NetSet ==
    /\ nspc = "idle"
    /\ \E patch \in Patches : nsPatch' = patch
    /\ \E failed \in BOOLEAN :
        IF failed
        THEN /\ nspc' = "fatal"
             /\ UNCHANGED <<nsCur, nsSent>>
        ELSE /\ nspc' = "merge"
             /\ nsCur' \in Configs
             /\ nsSent' = <<SentRequest("net_get", NilMap)>>
    /\ UNCHANGED <<nsBefore, nsEntry, nsMultiple, nsPrinted>>
    /\ UNCHANGED <<cmdVars, epVars, discVars, brVars, opVars>>

\* net_set, one pass of its loop over the patch (a Go map: the order of
\* the entries is not specified).
NetSetMerge ==
    /\ nspc = "merge"
    /\ \E ink \in DOMAIN nsPatch :
        LET r == MergeEntry(nsCur, ink, nsPatch[ink])
        IN /\ nsBefore' = nsCur
           /\ nsEntry' = [key |-> ink, val |-> nsPatch[ink], merged |-> TRUE]
           /\ nsCur' = r.cur
           /\ nsMultiple' = r.multiple
           /\ nspc' = IF r.panic THEN "panicked" ELSE "merge"
           /\ nsPatch' = [k \in DOMAIN nsPatch \ {ink} |-> nsPatch[k]]
    /\ UNCHANGED <<nsSent, nsPrinted>>
    /\ UNCHANGED <<cmdVars, epVars, discVars, brVars, opVars>>

\* net_set after its loop: jsonPrint(cur), and the command returns.
NetSetPrint ==
    /\ nspc = "merge"
    /\ DOMAIN nsPatch = {}
    /\ nsPrinted' = nsCur
    /\ nspc' = "done"
    /\ UNCHANGED <<nsPatch, nsCur, nsBefore, nsEntry, nsMultiple, nsSent>>
    /\ UNCHANGED <<cmdVars, epVars, discVars, brVars, opVars>>

\* C31: a call that passed its send step has made exactly one Stream.Write,
\* of the serialization of its request followed by CRLF; that write was made
\* before the call's first Scan, and no pass of the read loop writes.
C31_OneWriteBeforeReads ==
    /\ []((pc = "scan" \/ (pc = "done" /\ err = "nil"))
            => /\ writes = 1
               /\ wire = <<[line |-> MarshalSend(req), term |-> <<"\r", "\n">>]>>)
    /\ [][/\ wire' # wire => reads' = 0
          /\ reads' > reads => (writes = 1 /\ writes' = 1 /\ wire' = wire)]_vars

\* C31 witness: a call returned a response after an echo and a reply, having
\* written its one line.
C31_Witness ==
    /\ pc = "done" /\ err = "nil" /\ reads = 2 /\ nEcho = 1
    /\ Len(wire) = 1 /\ wire[1].line = MarshalSend(req) /\ wire[1].term = CRLF

\* C32: the line a Query wrote carries the type asked for and a null "msg",
\* the line a QueryMsg wrote carries the type and the payload handed in, and
\* each call's envelope carries a uuid greater than (so different from) that
\* of every earlier call on the controller, and not the zero uuid.
C32_QueryFreshId ==
    /\ []((called.fn \in {"Query", "QueryMsg"} /\ writes = 1)
            => /\ wire[1].line.type = called.Type
               /\ wire[1].line.id = req.Id
               /\ wire[1].line.msg = IF called.fn = "Query" THEN "null" ELSE called.Msg.json
               /\ req.Msg = called.Msg)
    /\ [][(called'.fn # "none" /\ <<called, req, nextId>>' # <<called, req, nextId>>)
            => (req'.Id > req.Id /\ req'.Id # ZeroId)]_vars

\* C32 witness: a QueryMsg with a payload after an earlier call, its line
\* written with the second uuid.
C32_Witness ==
    /\ called.fn = "QueryMsg" /\ writes = 1 /\ req.Id = 2
    /\ wire[1].line.msg = "objA" /\ wire[1].line.id = 2

\* C33: every endpoint ParseEndpoint returned with a nil error is valid: a
\* TCP endpoint has a host and a port other than 0, a serial endpoint has a
\* device.
C33_ParsedIsValid ==
    (epc # "start" /\ ep.err = "nil") => IsValid(ep.e)

\* C34: NewHybridController returns either a controller and a nil error, with
\* Stream set and Reader reading from that Stream, or no controller and an
\* error; it returns the error when the endpoint is of another type, is an
\* invalid TCP endpoint, or could not be dialled or opened; it dials or opens
\* at most once per call and never ends the process.
C34_ControllerOrError ==
    /\ ~opDown
    /\ attempts <= 1
    /\ opc = "returned"
        => /\ \/ opErr = "nil" /\ opHc = "controller"
                 /\ opStream # "nil" /\ opReader = opStream
              \/ opErr # "nil" /\ opHc = "nil"
           /\ opErr # "nil"
                <=> \/ opEndpoint.kind \notin {"tcp", "serial"}
                    \/ opEndpoint.kind = "tcp" /\ ~IsValid(opEndpoint)
                    \/ opened = "failed"

\* C34 witness: a second call returned no controller after a failed dial,
\* made once.
C34_Witness ==
    /\ opc = "returned" /\ nOpens = 2 /\ opEndpoint.kind = "tcp"
    /\ opened = "failed" /\ attempts = 1 /\ opErr = "dial" /\ opHc = "nil"

\* C35: sock.Flush() is called only on a serial port that was opened, once,
\* before the stream is returned: a controller over a serial port is
\* returned with the device's buffer discarded, and a call whose OpenPort
\* failed returns the error and no stream without any Flush.
C35_FlushAfterOpen ==
    /\ [](/\ ~flushedNil
          /\ flushes > 0 => (opEndpoint.kind = "serial" /\ opened = "ok" /\ flushes = 1)
          /\ (opc = "returned" /\ opStream = "port") => (flushes = 1 /\ buffered = 0)
          /\ (opc = "returned" /\ opened = "failed")
                => (flushes = 0 /\ opStream = "nil" /\ opErr # "nil"))
    /\ [][flushes' > flushes
            => (opc = "flush" /\ opened = "ok" /\ opStream = "nil")]_vars

\* C35 witness: a serial port with buffered bytes was opened and flushed and
\* the controller returned.
C35_Witness ==
    /\ opc = "returned" /\ opEndpoint.kind = "serial" /\ opStream = "port"
    /\ flushes = 1 /\ buffered = 0 /\ opErr = "nil" /\ nOpens = 1

\* C36: a luci2ws that has ended, by a Scan that returned false (end of the
\* stream or read error) or by a failed WriteMessage, has closed done exactly
\* once, one that has not ended has not closed it, a count once 1 stays 1,
\* and after a failed WriteMessage the socket connection is closed.
C36_DoneClosedOnce ==
    /\ [](\A s \in Sessions :
            /\ doneClosed[s] = IF outpc[s] = "ended" THEN 1 ELSE 0
            /\ outpc[s] = "ended" => outEnd[s] \in {"scan", "write"}
            /\ outEnd[s] = "write" => ws[s] = "closed")
    /\ [][\A s \in Sessions : doneClosed[s] = 1 => doneClosed'[s] = 1]_vars

\* C36 witness: one luci2ws ended by a failed WriteMessage and another by the
\* end of the stream, each having closed its done once.
C36_Witness ==
    /\ outEnd[1] = "write" /\ doneClosed[1] = 1 /\ ws[1] = "closed"
    /\ outEnd[2] = "scan" /\ doneClosed[2] = 1

\* C37: a net-set command that completed has sent, after its net_get, a
\* net_set request carrying the merged configuration.
C37_NetSetSendsSettings ==
    nspc = "done"
        => /\ Len(nsSent) = 2
           /\ nsSent[1].Type = "net_get"
           /\ nsSent[2] = SentRequest("net_set", nsCur)

\* C38: merging one entry never fails, and it changes cur in one place
\* only: for a key without a dot, inside the one dictionary of cur that
\* holds the key, at top level when none holds it, nowhere when several hold
\* it; for a key head.tail, at tail inside cur[head], a dictionary created
\* when cur has no head; the value set is a boolean for "true" and "false"
\* in any letter case and the given string otherwise.
C38_MergeOneEntry ==
    nsEntry.merged
        => LET c == Cut(nsEntry.key)
               low == ToLower(nsEntry.val)
               v == IF low \in {TrueText, FalseText} THEN Leaf("bool", low)
                    ELSE Leaf("string", nsEntry.val)
               holders == {h \in DOMAIN nsBefore.top :
                             /\ nsBefore.top[h].kind = "dict"
                             /\ nsEntry.key \in DOMAIN nsBefore.top[h].sub}
               OthersKept(changed) ==
                   \A k \in DOMAIN nsBefore.top \ changed :
                       k \in DOMAIN nsCur.top /\ nsCur.top[k] = nsBefore.top[k]
               SetInside(h, k) ==
                   /\ DOMAIN nsCur.top = DOMAIN nsBefore.top \cup {h}
                   /\ OthersKept({h})
                   /\ nsCur.top[h].kind = "dict"
                   /\ k \in DOMAIN nsCur.top[h].sub
                   /\ nsCur.top[h].sub[k] = v
                   /\ h \in DOMAIN nsBefore.top
                        => \A j \in DOMAIN nsBefore.top[h].sub \ {k} :
                              /\ j \in DOMAIN nsCur.top[h].sub
                              /\ nsCur.top[h].sub[j] = nsBefore.top[h].sub[j]
           IN /\ nspc # "panicked"
              /\ IF c.found THEN SetInside(c.head, c.tail)
                 ELSE IF Cardinality(holders) = 1
                 THEN \E h \in holders : SetInside(h, nsEntry.key)
                 ELSE IF holders = {}
                 THEN /\ DOMAIN nsCur.top = DOMAIN nsBefore.top \cup {nsEntry.key}
                      /\ OthersKept({nsEntry.key})
                      /\ nsCur.top[nsEntry.key] = Scalar(v)
                 ELSE nsCur = nsBefore

\* ---------------------------------------------------------- specifications
InitController == InitCommand /\ NoEndpointInput /\ NoDiscovery /\ NoBridge /\ NoOpen /\ NoNetSet

NextCommand ==
    \/ NewHybridController
    \/ Command
    \/ ScanLine
    \/ ScanFail
    \/ Deliver
    \/ ReadSideEnds
    \/ WriteSideBreaks

\* The protocol engine alone: one controller at a time, its stream and device.
SpecCommand == InitController /\ [][NextCommand]_vars

InitParse == InitCommand /\ hc = "nil" /\ InitEndpoint /\ NoDiscovery /\ NoBridge /\ NoOpen /\ NoNetSet

NextEndpoint ==
    \/ ParseInput
    \/ RoundTrip

\* ParseEndpoint and ToURL applied to every string of Inputs.
SpecEndpoint == InitParse /\ [][NextEndpoint]_vars

InitDiscovery == InitCommand /\ hc = "nil" /\ NoEndpointInput /\ NoDiscovery /\ NoBridge /\ NoOpen /\ NoNetSet

NextDiscovery ==
    \/ NewDiscovery
    \/ LookupRecord
    \/ LookupReturns
    \/ CheckServerTake
    \/ CheckServerExit
    \/ CheckServerResolve
    \/ CheckServerSendClosed
    \/ Find
    \/ SelectReceive
    \/ SelectReceiveClosed
    \/ SelectTimeout
    \/ Close
    \/ CloseEntries
    \/ CloseFound

\* One discovery session at a time: mdns.Lookup, checkServer and the caller.
SpecDiscovery == InitDiscovery /\ [][NextDiscovery]_vars

InitBridge ==
    InitCommand /\ hc = "nil" /\ NoEndpointInput /\ NoDiscovery /\ NewLuciGoWebServer /\ NoOpen /\ NoNetSet

NextBridge ==
    \/ StartWebSocket
    \/ Ws2Luci
    \/ Luci2ws
    \/ ClientSends
    \/ ClientLeaves
    \/ DeviceSendsLine
    \/ DeviceEnds
    \/ StreamBreaks
    \/ WebServerIdent

\* The web server: its bridge sessions, one after the other, the device, the
\* clients, and the identification endpoint.
SpecBridge == InitBridge /\ [][NextBridge]_vars

NextConversation ==
    \/ NewHybridController
    \/ Command
    \/ ScanLine
    \/ DeliverAnswer

\* The protocol engine with a device that follows the protocol and a stream
\* that does not fail.
SpecConversation == InitController /\ [][NextConversation]_vars

NextQuery ==
    \/ NewHybridController
    \/ Query
    \/ QueryMsg
    \/ ScanLine
    \/ DeliverAnswer
    \/ WriteSideBreaks

\* The high-level calls Query and QueryMsg on one controller at a time.
SpecQuery == InitController /\ [][NextQuery]_vars

\* No controller, discovery or server yet: the state in which
\* NewHybridController is called and in which a command of the CLI starts.
InitNoController ==
    InitCommand /\ hc = "nil" /\ NoEndpointInput /\ NoDiscovery /\ NoBridge /\ NoOpen /\ NoNetSet

NextOpen ==
    \/ NewHybridControllerSwitch
    \/ TCPEndpointOpen
    \/ SerialOpenPort
    \/ SerialFlush

\* NewHybridController on the endpoints of OpenEndpoints, call after call.
SpecOpen == InitNoController /\ [][NextOpen]_vars

NextNetSet ==
    \/ NetSet
    \/ NetSetMerge
    \/ NetSetPrint

\* One run of the command net-set: the query, the merge loop, the print.
SpecNetSet == InitNoController /\ [][NextNetSet]_vars
====
